---- MODULE Spec2Model ----
(***************************************************************************)
(* State-machine model of the TrendStory job backend (Supabase edge        *)
(* functions): the per-scene image-generation claim                        *)
(* (trendstory-generate-scene-image), the bulk image retry with            *)
(* self-requeue (trendstory-retry-images) and the job pipeline with        *)
(* create / restart (trendstory-start).                                    *)
(*                                                                         *)
(* One job is modelled (jobs never share rows).  Every await of a handler  *)
(* that touches the database or a provider is one step, so that handlers   *)
(* interleave exactly where the runtime can interleave them.               *)
(*                                                                         *)
(* Encodings: a null text column is the string NULL, a null request id is  *)
(* 0, a null timestamp is -1 and an absent scene row has row id 0.         *)
(* Time is in milliseconds and advances in steps of TickMs.                *)
(***************************************************************************)
EXTENDS Integers, Sequences, FiniteSets, TLC

\* ------------------------------------------------------------------------
\* Bounds of the model
\* ------------------------------------------------------------------------
MaxReqs == 2
MaxStarts == 2
MaxScenes == 2
RetryScenes == 3
PipeScenes == 13
ClaimScenes == 1
MaxTicks == 3
MaxStatusCalls == 2
TickMs == 60000
EnvLockStaleMs == 60000

\* ------------------------------------------------------------------------
\* Encodings
\* ------------------------------------------------------------------------
NULL == "NULL"
NoTime == -1
NoReq == 0
NoRow == 0

Max(a, b) == IF a >= b THEN a ELSE b
Min(a, b) == IF a <= b THEN a ELSE b

Reqs == 1..MaxReqs
Starts == 1..MaxStarts
SceneIds == 1..MaxScenes
NoId == -1000       \* a scene_id that is missing or not a finite number

VARIABLES
    now,        \* Date.now(), ms
    job,        \* the ytg_jobs row
    scenes,     \* ytg_scenes rows of the job, by scene_id
    assets,     \* ytg_assets rows of the job
    nextRowId,  \* the next primary key of ytg_scenes
    req,        \* trendstory-generate-scene-image requests in flight
    starts,     \* trendstory-start requests (create or restart)
    runs,       \* runPipeline executions, one per start request
    retry,      \* the trendstory-retry-images invocation at the head of the chain
    chain,      \* observation of the whole chain of retry invocations
    host,       \* the surroundings: what the provider can answer, EdgeRuntime.waitUntil
    ops,        \* trendstory-delete-job, trendstory-status and trendstory-retry-audio requests
    client      \* one call of the OpenAI client (text, image or speech) in progress

vars == <<now, job, scenes, assets, nextRowId, req, starts, runs, retry, chain, host, ops, client>>

\* ------------------------------------------------------------------------
\* Rows
\* ------------------------------------------------------------------------
AbsentScene ==
    [id |-> NoRow, narration |-> NULL, image_url |-> NULL, image_path |-> NULL, image_prompt |-> NULL,
     image_gen_status |-> NULL, image_gen_request_id |-> NoReq,
     image_gen_started_at |-> NoTime, image_gen_error |-> NULL]

\* (a mutation in which the pipeline marks the scenes it inserts as generating)
FreshSceneGenerating(rowId) ==
    [AbsentScene EXCEPT !.id = rowId, !.image_gen_status = "GENERATING", !.image_gen_started_at = 0]

\* a scene row as the pipeline inserts it (image columns null, claim columns default null)
FreshScene(rowId) == [AbsentScene EXCEPT !.id = rowId]

\* ---- the job row and the packager JSON -------------------------------
\* packager JSON: the stage-2 output merged with the _runtime object
NullPackager ==
    [isNull |-> TRUE, autoconfig_status |-> NULL, packager_status |-> NULL,
     scenes |-> <<>>, image_render_requests |-> <<>>, image_prompts |-> <<>>, logs |-> 0,
     tts_scenes_total |-> 0, tts_scenes_done |-> 0, tts_scenes_failed |-> 0]

\* { _runtime: { logs: [], autoconfig_status: 'running', packager_status: 'waiting' } }
InitialPackager ==
    [NullPackager EXCEPT !.isNull = FALSE, !.autoconfig_status = "running",
                         !.packager_status = "waiting"]

NoJob ==
    [exists |-> FALSE, status |-> NULL, input |-> 0,
     autoconfig |-> [isNull |-> TRUE, scene_count |-> 0],
     packager |-> NullPackager,
     final_package |-> [isNull |-> TRUE, scenes |-> 0],
     error |-> NULL]

\* (a mutation that refuses a packager with fewer log entries than the row's)
UpdateJobUnlessOlder(j, patch) ==
    IF j.exists /\ patch.packager.logs >= j.packager.logs THEN patch ELSE j

\* update(...).eq('id', jobId): no row, no effect
UpdateJob(j, patch) == IF j.exists THEN patch ELSE j

\* pushRuntimeLog: one more entry in _runtime.logs
PushLog(p) == [p EXCEPT !.logs = @ + 1]

ScenePath(sceneId) == "jobs/J/scene-" \o ToString(sceneId) \o ".png"
PublicUrl(path) == "https://store/" \o path
DerivedPrompt(sceneId) == "brief-" \o ToString(sceneId) \o ", no text, no logo"

\* a scene row whose image was produced earlier by the bulk retry (no claim columns written)
RetriedScene(rowId, sceneId) ==
    [FreshScene(rowId) EXCEPT !.image_path = ScenePath(sceneId),
                              !.image_url = PublicUrl(ScenePath(sceneId)),
                              !.image_prompt = DerivedPrompt(sceneId)]

\* a scene row left GENERATING at time 0 by a request that stopped without completing
\* (its request id belongs to no request of the model)
AbandonedReq == 99

AbandonedScene(rowId) ==
    [FreshScene(rowId) EXCEPT !.image_gen_status = "GENERATING",
                              !.image_gen_request_id = AbandonedReq,
                              !.image_gen_started_at = 0]

\* the locals of a handler are gone once it has responded: what remains of a
\* finished request is its response and the observations the properties read
Finished(q) ==
    [q EXCEPT !.pc = "done", !.staleBefore = NoTime, !.snapUrl = NULL, !.snapPrompt = NULL,
              !.checkId = NoRow, !.prompt = NULL, !.errMsg = NULL]

IdleReq ==
    [pc |-> "idle", sceneId |-> 0, force |-> FALSE, requestId |-> NoReq,
     staleBefore |-> NoTime, snapUrl |-> NULL, snapPrompt |-> NULL,
     checkId |-> NoRow, checkStatus |-> NULL, overlap |-> {},
     claimed |-> FALSE, claimedAt |-> NoTime, genCalls |-> 0,
     prompt |-> NULL, errMsg |-> NULL, matched |-> -1,
     status |-> NULL, http |-> 0, image_url |-> NULL]

\* ------------------------------------------------------------------------
\* trendstory-generate-scene-image
\* ------------------------------------------------------------------------
\* staleMs of runGenerate; env = 0 stands for an unset, empty or non-numeric variable
StaleMsOf(env) == Max(60000, Min(IF env = 0 THEN 300000 ELSE env, 3600000))

\* (a mutation that grants every claim)
CanClaimAlways(currentStatus, startedAt, staleBefore) == TRUE

\* (a mutation that grants the claim on a row never claimed before only)
CanClaimOnlyUnclaimed(currentStatus, startedAt, staleBefore) == currentStatus = NULL

\* (a mutation that never treats a GENERATING claim as stale)
CanClaimNeverStale(currentStatus, startedAt, staleBefore) ==
    \/ currentStatus = NULL
    \/ currentStatus # "GENERATING"

\* canClaim of claimSceneImageGeneration
CanClaim(currentStatus, startedAt, staleBefore) ==
    \/ currentStatus = NULL
    \/ currentStatus # "GENERATING"
    \/ (startedAt # NoTime /\ startedAt < staleBefore)

\* (a mutation that inverts the force flag)
AlreadyExistsForceInverted(force, existingUrl) == force /\ existingUrl # NULL

\* the early return of runGenerate: an image exists and regeneration is not forced
AlreadyExists(force, existingUrl) == ~force /\ existingUrl # NULL

\* a request { job_id, scene_id, force } arrives and runGenerate selects the job row
GenStart(r, s, force) ==
    /\ req[r].pc = "idle"
    /\ IF r = 1 THEN TRUE ELSE req[r - 1].pc # "idle"   \* requests are numbered in arrival order
    /\ job.exists
    /\ req' = [req EXCEPT ![r] = [@ EXCEPT !.pc = "select_scene", !.sceneId = s, !.force = force]]
    /\ UNCHANGED <<now, job, scenes, assets, nextRowId, starts, runs, retry, chain, host, ops, client>>

\* runGenerate selects the scene row: no row is thrown (answered 500); else it
\* returns ALREADY_EXISTS or draws the request id and the staleness window
GenSelectScene(r) ==
    /\ req[r].pc = "select_scene"
    /\ LET s == req[r].sceneId
           force == req[r].force
           existingUrl == scenes[s].image_url
       IN IF scenes[s].id = NoRow
          THEN req' = [req EXCEPT ![r] = Finished([@ EXCEPT !.http = 500])]
          ELSE IF AlreadyExists(force, existingUrl)
          THEN req' = [req EXCEPT ![r] = Finished([@ EXCEPT !.status = "ALREADY_EXISTS", !.http = 200,
                                            !.image_url = existingUrl])]
          ELSE req' = [req EXCEPT ![r] = [@ EXCEPT !.pc = "claim_check",
                                            !.snapUrl = existingUrl,
                                            !.snapPrompt = scenes[s].image_prompt,
                                            !.requestId = r,
                                            !.staleBefore = now - StaleMsOf(EnvLockStaleMs)]]
    /\ UNCHANGED <<now, job, scenes, assets, nextRowId, starts, runs, retry, chain, host, ops, client>>

\* observation: the other claim calls on the same scene that have read the row and
\* not yet written it when r reads it (the calls r's call overlaps)
OverlappingClaims(r) ==
    {q \in Reqs \ {r} : req[q].pc = "claim_write" /\ req[q].sceneId = req[r].sceneId}

\* claimSceneImageGeneration, the select and the canClaim decision; a claim
\* that is granted builds its update at once, with nowIso() as the start time
ClaimCheck(r) ==
    /\ req[r].pc = "claim_check"
    /\ LET row == scenes[req[r].sceneId] IN
       /\ row.id # NoRow
       /\ IF CanClaim(row.image_gen_status, row.image_gen_started_at, req[r].staleBefore)
          THEN req' = [req EXCEPT ![r] = [@ EXCEPT !.pc = "claim_write", !.checkId = row.id,
                                            !.checkStatus = row.image_gen_status,
                                            !.overlap = OverlappingClaims(r),
                                            !.claimedAt = now]]
          ELSE req' = [req EXCEPT ![r] = Finished([@ EXCEPT
                                            !.checkStatus = row.image_gen_status,
                                            !.overlap = OverlappingClaims(r),
                                            !.claimed = FALSE,
                                            !.status = "IN_PROGRESS", !.http = 202])]
    /\ UNCHANGED <<now, job, scenes, assets, nextRowId, starts, runs, retry, chain, host, ops, client>>

\* the rows the claiming update matches: job_id, scene_id and the row id read before
ClaimMatches(row, checkId) == row.id # NoRow /\ row.id = checkId

\* (a mutation whose claim writes the status alone)
ClaimPatchStatusOnly(row, requestId, startedAt) == [row EXCEPT !.image_gen_status = "GENERATING"]

\* the columns written by the claim of claimSceneImageGeneration
ClaimPatch(row, requestId, startedAt) ==
    [row EXCEPT !.image_gen_status = "GENERATING",
                !.image_gen_request_id = requestId,
                !.image_gen_started_at = startedAt,
                !.image_gen_error = NULL]

\* claimSceneImageGeneration, the update as the database applies it (the start
\* time is the one the update was built with) and its result
ClaimWrite(r) ==
    /\ req[r].pc = "claim_write"
    /\ LET s == req[r].sceneId IN
       IF ClaimMatches(scenes[s], req[r].checkId)
       THEN /\ scenes' = [scenes EXCEPT ![s] = ClaimPatch(@, req[r].requestId, req[r].claimedAt)]
            /\ req' = [req EXCEPT ![r] = [@ EXCEPT !.pc = "generate", !.claimed = TRUE]]
       ELSE /\ scenes' = scenes
            /\ req' = [req EXCEPT ![r] = Finished([@ EXCEPT !.claimed = FALSE,
                                            !.claimedAt = NoTime,
                                            !.status = "IN_PROGRESS", !.http = 202])]
    /\ UNCHANGED <<now, job, assets, nextRowId, starts, runs, retry, chain, host, ops, client>>

\* prompt of runGenerate: the row's prompt, else one derived from the text columns
PromptOf(snapPrompt, sceneId) == IF snapPrompt # NULL THEN snapPrompt ELSE DerivedPrompt(sceneId)

\* openaiImagePng and the storage upload: both succeed, or the call throws
Generate(r) ==
    /\ req[r].pc = "generate"
    /\ \E outcome \in {"ok", "OpenAI image error"} :
         req' = [req EXCEPT ![r] = [@ EXCEPT
                    !.pc = IF outcome = "ok" THEN "update" ELSE "fail",
                    !.genCalls = @ + 1,
                    !.prompt = PromptOf(req[r].snapPrompt, req[r].sceneId),
                    !.errMsg = IF outcome = "ok" THEN NULL ELSE outcome]]
    /\ UNCHANGED <<now, job, scenes, assets, nextRowId, starts, runs, retry, chain, host, ops, client>>

\* (a mutation that drops the request-id condition of the completion updates)
CompletionMatchesAnyRequest(row, requestId) == row.id # NoRow

\* the rows a completion update matches: job_id, scene_id and the claim's request id
CompletionMatches(row, requestId) == row.id # NoRow /\ row.image_gen_request_id = requestId

\* runGenerate, the update that records the image and SUCCEEDED
UpdateSucceeded(r) ==
    /\ req[r].pc = "update"
    /\ LET s == req[r].sceneId
           path == ScenePath(s)
           hit == CompletionMatches(scenes[s], req[r].requestId) IN
       /\ scenes' = IF hit
                    THEN [scenes EXCEPT ![s] = [@ EXCEPT !.image_path = path,
                                                  !.image_url = PublicUrl(path),
                                                  !.image_prompt = req[r].prompt,
                                                  !.image_gen_status = "SUCCEEDED",
                                                  !.image_gen_error = NULL]]
                    ELSE scenes
       /\ req' = [req EXCEPT ![r] = [@ EXCEPT !.pc = "asset", !.matched = IF hit THEN 1 ELSE 0]]
    /\ UNCHANGED <<now, job, assets, nextRowId, starts, runs, retry, chain, host, ops, client>>

\* runGenerate, the best-effort asset insert and the SUCCEEDED response
InsertImageAsset(r) ==
    /\ req[r].pc = "asset"
    /\ LET s == req[r].sceneId
           path == ScenePath(s) IN
       /\ \E insOk \in BOOLEAN :
            assets' = IF insOk /\ job.exists
                      THEN assets \cup {[type |-> "image", path |-> path, url |-> PublicUrl(path),
                                         scene_id |-> s, by |-> <<"generate", req[r].requestId>>]}
                      ELSE assets
       /\ req' = [req EXCEPT ![r] = Finished([@ EXCEPT !.status = "SUCCEEDED", !.http = 200,
                                       !.image_url = PublicUrl(path)])]
    /\ UNCHANGED <<now, job, scenes, nextRowId, starts, runs, retry, chain, host, ops, client>>

\* runGenerate, the catch block: records FAILED and the message
UpdateFailed(r) ==
    /\ req[r].pc = "fail"
    /\ LET s == req[r].sceneId
           hit == CompletionMatches(scenes[s], req[r].requestId) IN
       /\ scenes' = IF hit
                    THEN [scenes EXCEPT ![s] = [@ EXCEPT !.image_gen_status = "FAILED",
                                                  !.image_gen_error = req[r].errMsg]]
                    ELSE scenes
       /\ req' = [req EXCEPT ![r] = Finished([@ EXCEPT !.matched = IF hit THEN 1 ELSE 0,
                                       !.status = "FAILED", !.http = 200])]
    /\ UNCHANGED <<now, job, assets, nextRowId, starts, runs, retry, chain, host, ops, client>>

\* ------------------------------------------------------------------------
\* trendstory-start: create / restart and runPipeline
\* ------------------------------------------------------------------------
IdleRun ==
    [pc |-> "idle", scene_count |-> 0, packager |-> NullPackager, scenes |-> <<>>,
     ttsIdx |-> 0, audios |-> {}, stage2Calls |-> 0, first |-> "none", repair |-> "none",
     errMsg |-> NULL]

\* a run whose function has returned keeps only what the properties observe
FinishedRun(q) ==
    [q EXCEPT !.pc = "done", !.packager = NullPackager, !.scenes = <<>>, !.ttsIdx = 0,
              !.audios = {}, !.scene_count = 0]

\* what the provider can answer -------------------------------------------
\* scene_count of the stage-1 output; 0 stands for a missing, zero or non-numeric value
Stage1SceneCounts == {0, 1}

Sc(id, narration) == [scene_id |-> id, narration |-> narration]
Irr(id, prompt) == [scene_id |-> id, prompt |-> prompt]

\* stage-2 outputs: no scenes; scenes with explicit image requests; scenes without
\* indices; a duplicated index; scenes out of order
Out(scenes_, image_render_requests_, image_prompts_) ==
    [scenes |-> scenes_, image_render_requests |-> image_render_requests_,
     image_prompts |-> image_prompts_]

Stage2Outputs ==
    { Out(<<>>, <<>>, <<>>),
      Out(<<Sc(1, "text"), Sc(2, "")>>, <<Irr(1, "p1"), Irr(2, "")>>, <<>>),
      Out(<<Sc(NoId, "text"), Sc(NoId, "text")>>, <<>>, <<>>),
      Out(<<Sc(1, "text"), Sc(1, "text")>>, <<>>, <<>>),
      Out(<<Sc(2, "text"), Sc(1, "text")>>, <<>>, <<>>) }

\* the surroundings of the functions: the answers of the provider, whether the
\* runtime offers EdgeRuntime.waitUntil, and whether the database can refuse the
\* updates of runPipeline whose result the code does not look at
\* how long one item (image call and upload) can take, ms
ItemDurations == {20000, 60000}

DefaultHost ==
    [counts |-> Stage1SceneCounts, outputs |-> Stage2Outputs, waitUntil |-> TRUE, dbFaults |-> FALSE,
     keys |-> {<<"a.b.c", "a.b.c">>}, durations |-> ItemDurations]

\* the outcomes of an update whose error is not looked at
UncheckedUpdateOk == IF host.dbFaults THEN BOOLEAN ELSE {TRUE}

\* pure helpers -------------------------------------------------------------
RECURSIVE InsertSorted(_, _)
\* stable insertion of x behind the elements that do not compare greater
InsertSorted(x, sorted) ==
    IF sorted = <<>> THEN <<x>>
    ELSE IF Head(sorted).scene_id <= x.scene_id
         THEN <<Head(sorted)>> \o InsertSorted(x, Tail(sorted))
         ELSE <<x>> \o sorted

RECURSIVE SortByScene(_)
\* Array.prototype.sort by scene_id (stable)
SortByScene(list) ==
    IF list = <<>> THEN <<>>
    ELSE InsertSorted(list[Len(list)], SortByScene(SubSeq(list, 1, Len(list) - 1)))

\* (a mutation without the upper limit of 12)
TargetCountUncapped(scene_count) == Max(1, IF scene_count = 0 THEN 6 ELSE scene_count)

\* targetCount of runPipeline
TargetCount(scene_count) == Max(1, Min(IF scene_count = 0 THEN 6 ELSE scene_count, 12))

\* normalizeScenes of runPipeline: slice, default the index to the position, sort
NormalizeScenes(list, targetCount) ==
    LET cut == SubSeq(list, 1, Min(Len(list), targetCount))
        ids == [i \in 1..Len(cut) |->
                  [cut[i] EXCEPT !.scene_id = IF cut[i].scene_id # NoId THEN cut[i].scene_id ELSE i]]
    IN SortByScene(ids)

SeqRange(s) == {s[i] : i \in 1..Len(s)}

\* (a mutation that also sends the scenes without narration to speech)
TtsTargetsAll(list) == list

\* the scenes of a run that get speech: non-empty narration
TtsTargets(list) == SelectSeq(list, LAMBDA s : s.narration # "")

\* normalizeImageRenderRequests: the explicit requests that name an inserted scene
\* and carry a prompt; when there is none, one request per inserted scene that has
\* a prompt in image_prompts, or, when image_prompts gives none, per inserted scene
\* that the packager lists with a finite scene_id (its prompt is derived)
NormalizeImageRenderRequests(p, sceneIdList) ==
    LET valid == SeqRange(sceneIdList)
        usable(r) == r.scene_id # NoId /\ r.scene_id \in valid /\ r.prompt # ""
        cleaned == SelectSeq(p.image_render_requests, usable)
        fromPrompts == {r.scene_id : r \in {x \in SeqRange(p.image_prompts) : usable(x)}}
        fromScenes == {s.scene_id : s \in {x \in SeqRange(p.scenes) : x.scene_id # NoId /\ x.scene_id \in valid}}
        byId == IF fromPrompts # {} THEN fromPrompts ELSE fromScenes
        promptOf(sid) ==
            IF fromPrompts # {}
            THEN LET last == CHOOSE i \in 1..Len(p.image_prompts) :
                                 /\ usable(p.image_prompts[i]) /\ p.image_prompts[i].scene_id = sid
                                 /\ \A j \in (i + 1)..Len(p.image_prompts) :
                                        ~(usable(p.image_prompts[j]) /\ p.image_prompts[j].scene_id = sid)
                 IN p.image_prompts[last].prompt
            ELSE DerivedPrompt(sid)
        reqs == SelectSeq(sceneIdList, LAMBDA sid : sid \in byId)
    IN IF Len(cleaned) > 0
       THEN [requests |-> cleaned, generated |-> FALSE]
       ELSE [requests |-> [i \in 1..Len(reqs) |-> Irr(reqs[i], promptOf(reqs[i]))],
             generated |-> TRUE]

\* the handler --------------------------------------------------------------
\* Deno.serve without job_id: inserts the job row QUEUED and starts runPipeline
StartCreate(k) ==
    /\ starts[k] = "idle"
    /\ IF k = 1 THEN TRUE ELSE starts[k - 1] # "idle"
    /\ ~job.exists
    /\ job' = [NoJob EXCEPT !.exists = TRUE, !.status = "QUEUED", !.input = k]
    /\ starts' = [starts EXCEPT ![k] = "done"]
    /\ runs' = [runs EXCEPT ![k] = [IdleRun EXCEPT !.pc = "start"]]
    /\ UNCHANGED <<now, scenes, assets, nextRowId, req, retry, chain, host, ops, client>>

\* Deno.serve with job_id: the select of the existing job
RestartSelect(k) ==
    /\ starts[k] = "idle"
    /\ IF k = 1 THEN TRUE ELSE starts[k - 1] # "idle"
    /\ job.exists
    /\ starts' = [starts EXCEPT ![k] = "reset"]
    /\ UNCHANGED <<now, job, scenes, assets, nextRowId, req, runs, retry, chain, host, ops, client>>

\* Deno.serve with job_id: the update that resets the row to QUEUED
RestartReset(k) ==
    /\ starts[k] = "reset"
    /\ job' = UpdateJob(job, [NoJob EXCEPT !.exists = TRUE, !.status = "QUEUED", !.input = k])
    /\ starts' = [starts EXCEPT ![k] = IF job.exists THEN "delete_scenes" ELSE "done"]
    /\ UNCHANGED <<now, scenes, assets, nextRowId, req, runs, retry, chain, host, ops, client>>

\* Deno.serve with job_id: delete of the scene rows
RestartDeleteScenes(k) ==
    /\ starts[k] = "delete_scenes"
    /\ scenes' = [s \in DOMAIN scenes |-> AbsentScene]
    /\ starts' = [starts EXCEPT ![k] = "delete_assets"]
    /\ UNCHANGED <<now, job, assets, nextRowId, req, runs, retry, chain, host, ops, client>>

\* Deno.serve with job_id: delete of the asset rows, then runPipeline is started
RestartDeleteAssets(k) ==
    /\ starts[k] = "delete_assets"
    /\ assets' = {}
    /\ starts' = [starts EXCEPT ![k] = "done"]
    /\ runs' = [runs EXCEPT ![k] = [IdleRun EXCEPT !.pc = "start"]]
    /\ UNCHANGED <<now, job, scenes, nextRowId, req, retry, chain, host, ops, client>>

\* runPipeline --------------------------------------------------------------
Throw(k, msg) == [runs EXCEPT ![k] = [@ EXCEPT !.pc = "catch", !.errMsg = msg]]

\* update { status: RUNNING, error: null }; its result is not looked at
P_MarkRunning(k) ==
    /\ runs[k].pc = "start"
    /\ \E dbOk \in UncheckedUpdateOk :
         job' = IF dbOk THEN UpdateJob(job, [job EXCEPT !.status = "RUNNING", !.error = NULL]) ELSE job
    /\ runs' = [runs EXCEPT ![k] = [@ EXCEPT !.pc = "init_packager"]]
    /\ UNCHANGED <<now, scenes, assets, nextRowId, req, starts, retry, chain, host, ops, client>>

\* the packager object is created and persisted; the result is not looked at
P_InitPackager(k) ==
    /\ runs[k].pc = "init_packager"
    /\ \E dbOk \in UncheckedUpdateOk :
         job' = IF dbOk THEN UpdateJob(job, [job EXCEPT !.packager = InitialPackager]) ELSE job
    /\ runs' = [runs EXCEPT ![k] = [@ EXCEPT !.pc = "stage1", !.packager = InitialPackager]]
    /\ UNCHANGED <<now, scenes, assets, nextRowId, req, starts, retry, chain, host, ops, client>>

\* stage 1: the AutoConfig call returns a configuration or throws
P_Stage1(k) ==
    /\ runs[k].pc = "stage1"
    /\ \E threw \in BOOLEAN : \E sc \in host.counts :
         runs' = IF threw
                 THEN Throw(k, "OpenAI responses error")
                 ELSE [runs EXCEPT ![k] = [@ EXCEPT !.pc = "persist_autoconfig",
                          !.scene_count = sc,
                          !.packager = [@ EXCEPT !.autoconfig_status = "done",
                                                 !.packager_status = "running"]]]
    /\ UNCHANGED <<now, job, scenes, assets, nextRowId, req, starts, retry, chain, host, ops, client>>

\* update { autoconfig, packager }; an error of the update is thrown
P_PersistAutoconfig(k) ==
    /\ runs[k].pc = "persist_autoconfig"
    /\ \E dbOk \in BOOLEAN :
         IF dbOk
         THEN /\ job' = UpdateJob(job, [job EXCEPT
                          !.autoconfig = [isNull |-> FALSE, scene_count |-> runs[k].scene_count],
                          !.packager = runs[k].packager])
              /\ runs' = [runs EXCEPT ![k] = [@ EXCEPT !.pc = "stage2"]]
         ELSE /\ job' = job
              /\ runs' = Throw(k, "autoconfig DB update failed")
    /\ UNCHANGED <<now, scenes, assets, nextRowId, req, starts, retry, chain, host, ops, client>>

\* what follows a stage-2 answer: Object.assign, normalizeScenes, the empty check
AfterStage2(k, out, calls) ==
    LET merged == [runs[k].packager EXCEPT !.scenes = out.scenes,
                                           !.image_render_requests = out.image_render_requests,
                                           !.image_prompts = out.image_prompts]
        norm == NormalizeScenes(merged.scenes, TargetCount(runs[k].scene_count))
    IN IF Len(norm) = 0
       THEN [runs EXCEPT ![k] = [@ EXCEPT !.pc = "repair", !.stage2Calls = calls,
                                   !.first = "empty",
                                   !.packager = PushLog(PushLog(merged)), !.scenes = norm]]
       ELSE [runs EXCEPT ![k] = [@ EXCEPT !.pc = "persist_packager", !.stage2Calls = calls,
                                   !.first = "valid",
                                   !.packager = PushLog([merged EXCEPT !.packager_status = "done"]),
                                   !.scenes = norm]]

\* the mutant lets the error of the call with web search reach runPipeline's catch
Stage2CatchRethrows(k) == [Throw(k, "OpenAI responses error") EXCEPT ![k].stage2Calls = 1]

\* the catch around the Packager call with web search: warn, then the fallback
Stage2Catch(k) == [runs EXCEPT ![k] = [@ EXCEPT !.pc = "stage2_fallback", !.stage2Calls = 1]]

\* stage 2: the Packager call with web search returns an output or throws
P_Stage2(k) ==
    /\ runs[k].pc = "stage2"
    /\ \E threw \in BOOLEAN : \E out \in host.outputs :
         runs' = IF threw
                 THEN Stage2Catch(k)
                 ELSE AfterStage2(k, out, 1)
    /\ UNCHANGED <<now, job, scenes, assets, nextRowId, req, starts, retry, chain, host, ops, client>>

\* stage 2: the same call without web search
P_Stage2Fallback(k) ==
    /\ runs[k].pc = "stage2_fallback"
    /\ \E threw \in BOOLEAN : \E out \in host.outputs :
         runs' = IF threw
                 THEN [Throw(k, "OpenAI responses error") EXCEPT ![k].stage2Calls = 2]
                 ELSE AfterStage2(k, out, 2)
    /\ UNCHANGED <<now, job, scenes, assets, nextRowId, req, starts, retry, chain, host, ops, client>>

\* the outcome of `packager = await openaiResponsesJson(...)` in the repair branch:
\* the call is made; when it returns, the assignment to the const binding
\* `packager` throws a TypeError, so its answer is never looked at
RepairOutcome(threw, out) ==
    IF threw
    THEN [repair |-> "threw", errMsg |-> "OpenAI responses error"]
    ELSE [repair |-> IF Len(out.scenes) = 0 THEN "empty" ELSE "valid",
          errMsg |-> "Assignment to constant variable."]

\* the single repair request
P_Repair(k) ==
    /\ runs[k].pc = "repair"
    /\ \E threw \in BOOLEAN : \E out \in host.outputs :
         LET o == RepairOutcome(threw, out) IN
         runs' = [Throw(k, o.errMsg) EXCEPT ![k].stage2Calls = @ + 1, ![k].repair = o.repair]
    /\ UNCHANGED <<now, job, scenes, assets, nextRowId, req, starts, retry, chain, host, ops, client>>

\* update { packager }; an error of the update is thrown
P_PersistPackager(k) ==
    /\ runs[k].pc = "persist_packager"
    /\ \E dbOk \in BOOLEAN :
         IF dbOk
         THEN /\ job' = UpdateJob(job, [job EXCEPT !.packager = runs[k].packager])
              /\ runs' = [runs EXCEPT ![k] = [@ EXCEPT !.pc = "insert_scenes"]]
         ELSE /\ job' = job
              /\ runs' = Throw(k, "packager DB update failed")
    /\ UNCHANGED <<now, scenes, assets, nextRowId, req, starts, retry, chain, host, ops, client>>

\* the bulk insert is rejected as a whole: no job row (foreign key), or a scene_id
\* twice in the list or already present (unique index on job_id, scene_id)
InsertRejected(list) ==
    \/ ~job.exists
    \/ \E i \in 1..Len(list) : \E j \in 1..Len(list) : i # j /\ list[i].scene_id = list[j].scene_id
    \/ \E i \in 1..Len(list) : scenes[list[i].scene_id].id # NoRow

\* insert of the scene rows; then the speech counters are set up
P_InsertScenes(k) ==
    /\ runs[k].pc = "insert_scenes"
    /\ LET list == runs[k].scenes IN
       IF InsertRejected(list)
       THEN /\ runs' = Throw(k, "ytg_scenes insert failed")
            /\ UNCHANGED <<scenes, nextRowId, client>>
       ELSE /\ scenes' = [s \in DOMAIN scenes |->
                            IF \E i \in 1..Len(list) : list[i].scene_id = s
                            THEN LET i == CHOOSE i \in 1..Len(list) : list[i].scene_id = s
                                 IN [FreshScene(nextRowId + i - 1) EXCEPT !.narration = list[i].narration]
                            ELSE scenes[s]]
            /\ nextRowId' = nextRowId + Len(list)
            /\ runs' = [runs EXCEPT ![k] = [@ EXCEPT !.pc = "tts", !.ttsIdx = 1,
                          !.packager = [@ EXCEPT !.tts_scenes_total = Len(TtsTargets(list)),
                                                 !.tts_scenes_done = 0,
                                                 !.tts_scenes_failed = 0]]]
    /\ UNCHANGED <<now, job, assets, req, starts, retry, chain, host, ops, client>>

AudioPath(sceneId) == "jobs/J/tts/scene-" \o ToString(sceneId) \o ".mp3"

\* stage 3, one scene: speech, upload, best-effort asset row (a refused insert is
\* logged), counters and logs on the local packager; after the last scene the
\* loop is left
P_Tts(k) ==
    /\ runs[k].pc = "tts"
    /\ LET targets == TtsTargets(runs[k].scenes) IN
       IF runs[k].ttsIdx > Len(targets)
       THEN /\ runs' = [runs EXCEPT ![k] = [@ EXCEPT !.pc = "image_prompts"]]
            /\ UNCHANGED <<assets, client>>
       ELSE LET s == targets[runs[k].ttsIdx].scene_id IN
            \E ok \in BOOLEAN : \E insOk \in BOOLEAN :
              LET p == IF ok
                       THEN PushLog(PushLog([runs[k].packager EXCEPT !.tts_scenes_done = @ + 1]))
                       ELSE PushLog(PushLog([runs[k].packager EXCEPT !.tts_scenes_failed = @ + 1]))
                  p2 == IF ok /\ ~(insOk /\ job.exists) THEN PushLog(p) ELSE p
              IN /\ assets' = IF ok /\ insOk /\ job.exists
                              THEN assets \cup {[type |-> "audio", path |-> AudioPath(s),
                                                 url |-> PublicUrl(AudioPath(s)),
                                                 scene_id |-> s, by |-> <<"pipeline", k>>]}
                              ELSE assets
                 /\ runs' = [runs EXCEPT ![k] = [@ EXCEPT !.pc = "tts_persist", !.ttsIdx = @ + 1,
                               !.packager = p2,
                               !.audios = IF ok THEN @ \cup {s} ELSE @]]
    /\ UNCHANGED <<now, job, scenes, nextRowId, req, starts, retry, chain, host, ops, client>>

\* stage 3, one scene: the progress persist update { packager } that ends the
\* turn of the loop; its result is not looked at
P_TtsPersist(k) ==
    /\ runs[k].pc = "tts_persist"
    /\ \E dbOk \in UncheckedUpdateOk :
         job' = IF dbOk THEN UpdateJob(job, [job EXCEPT !.packager = runs[k].packager]) ELSE job
    /\ runs' = [runs EXCEPT ![k] = [@ EXCEPT !.pc = "tts"]]
    /\ UNCHANGED <<now, scenes, assets, nextRowId, req, starts, retry, chain, host, ops, client>>

\* the last log entry of the run and the update { packager } after it; its
\* result is not looked at
PersistImagePrompts(k, p) ==
    /\ \E dbOk \in UncheckedUpdateOk :
         job' = IF dbOk THEN UpdateJob(job, [job EXCEPT !.packager = PushLog(p)]) ELSE job
    /\ runs' = [runs EXCEPT ![k] = [@ EXCEPT !.pc = "json_asset", !.packager = PushLog(p)]]

\* the image-prompt list is normalised; a synthesized list is logged and
\* persisted with an update of its own, otherwise the last update follows at once
P_ImagePrompts(k) ==
    /\ runs[k].pc = "image_prompts"
    /\ LET ids == [i \in 1..Len(runs[k].scenes) |-> runs[k].scenes[i].scene_id]
           norm == NormalizeImageRenderRequests(runs[k].packager, ids)
           p == PushLog([runs[k].packager EXCEPT !.image_render_requests = norm.requests])
       IN IF norm.generated
          THEN /\ \E dbOk \in UncheckedUpdateOk :
                    job' = IF dbOk THEN UpdateJob(job, [job EXCEPT !.packager = p]) ELSE job
               /\ runs' = [runs EXCEPT ![k] = [@ EXCEPT !.pc = "image_prompts_persist", !.packager = p]]
          ELSE PersistImagePrompts(k, runs[k].packager)
    /\ UNCHANGED <<now, scenes, assets, nextRowId, req, starts, retry, chain, host, ops, client>>

\* after a synthesized list: the last log entry and the last update { packager }
P_ImagePromptsPersist(k) ==
    /\ runs[k].pc = "image_prompts_persist"
    /\ PersistImagePrompts(k, runs[k].packager)
    /\ UNCHANGED <<now, scenes, assets, nextRowId, req, starts, retry, chain, host, ops, client>>

\* insert of the json marker asset; an error of the insert is thrown
P_InsertJsonAsset(k) ==
    /\ runs[k].pc = "json_asset"
    /\ \E insOk \in BOOLEAN :
         IF insOk /\ job.exists
         THEN /\ assets' = assets \cup {[type |-> "json", path |-> NULL, url |-> NULL,
                                         scene_id |-> 0, by |-> <<"pipeline", k>>]}
              /\ runs' = [runs EXCEPT ![k] = [@ EXCEPT !.pc = "succeed"]]
         ELSE /\ assets' = assets
              /\ runs' = Throw(k, "ytg_assets insert failed")
    /\ UNCHANGED <<now, job, scenes, nextRowId, req, starts, retry, chain, host, ops, client>>

\* update { status: SUCCEEDED, final_package, packager, error: null }
P_Succeed(k) ==
    /\ runs[k].pc = "succeed"
    /\ \E dbOk \in BOOLEAN :
         IF dbOk
         THEN /\ job' = UpdateJob(job, [job EXCEPT !.status = "SUCCEEDED",
                          !.final_package = [isNull |-> FALSE, scenes |-> Len(runs[k].scenes)],
                          !.packager = runs[k].packager,
                          !.error = NULL])
              /\ runs' = [runs EXCEPT ![k] = FinishedRun(@)]
         ELSE /\ job' = job
              /\ runs' = Throw(k, "ytg_jobs update failed")
    /\ UNCHANGED <<now, scenes, assets, nextRowId, req, starts, retry, chain, host, ops, client>>

\* the catch block: update { status: FAILED, error: msg }; its result is not looked at
P_Fail(k) ==
    /\ runs[k].pc = "catch"
    /\ \E dbOk \in UncheckedUpdateOk :
         job' = IF dbOk THEN UpdateJob(job, [job EXCEPT !.status = "FAILED", !.error = runs[k].errMsg])
                ELSE job
    /\ runs' = [runs EXCEPT ![k] = FinishedRun(@)]
    /\ UNCHANGED <<now, scenes, assets, nextRowId, req, starts, retry, chain, host, ops, client>>

\* ------------------------------------------------------------------------
\* trendstory-delete-job, trendstory-status, trendstory-retry-audio
\* ------------------------------------------------------------------------
IdleAudio ==
    [pc |-> "idle", packager |-> NullPackager, fp |-> [isNull |-> TRUE, scenes |-> 0],
     sceneRows |-> <<>>, idx |-> 0, urls |-> {}]

IdleOps ==
    [del |-> "idle", delHttp |-> 0,
     statusPc |-> "idle", statusHttp |-> 0, statusBody |-> NULL, statusScenes |-> 0, statusAssets |-> 0,
     statusCalls |-> 0, statusReq |-> [job_id |-> "", fault |-> "none"],
     audio |-> IdleAudio, audioHttp |-> 0]

\* trendstory-delete-job: the handler starts runDeleteJob and answers 202 at once
DeleteAccept ==
    /\ ops.del = "idle"
    /\ job.exists
    /\ ops' = [ops EXCEPT !.del = "storage", !.delHttp = 202]
    /\ UNCHANGED <<now, job, scenes, assets, nextRowId, req, starts, runs, retry, chain, host, client>>

\* runDeleteJob: best-effort removal of the storage objects under jobs/<job_id>
DeleteStorage ==
    /\ ops.del = "storage"
    /\ ops' = [ops EXCEPT !.del = "row"]
    /\ UNCHANGED <<now, job, scenes, assets, nextRowId, req, starts, runs, retry, chain, host, client>>

\* runDeleteJob: delete of the ytg_jobs row; ytg_scenes and ytg_assets rows go with
\* it (on delete cascade). The result of the delete is not looked at: when the
\* database refuses or fails it, the rows stay and the function returns all the same
DeleteRow ==
    /\ ops.del = "row"
    /\ \E dbOk \in BOOLEAN :
         IF dbOk
         THEN /\ job' = NoJob
              /\ scenes' = [s \in DOMAIN scenes |-> AbsentScene]
              /\ assets' = {}
         ELSE UNCHANGED <<job, scenes, assets>>
    /\ ops' = [ops EXCEPT !.del = "done"]
    /\ UNCHANGED <<now, nextRowId, req, starts, runs, retry, chain, host, client>>

\* the scene rows of the job
ExistingSceneIds == {s \in DOMAIN scenes : scenes[s].id # NoRow}

\* the id of the job of the model (a uuid), and what a status request can carry
\* as job_id: nothing, a text that is not a uuid, the uuid of no job, the job's id
JobId == "J"
StatusJobIds == {"", "not-a-uuid", "other", JobId}
IsUuid(jobId) == jobId \in {"other", JobId}

\* what can go wrong with the reads of one status request (connection, timeout)
StatusFaults == {"none", "job", "scenes", "assets"}

\* the error of select(...).eq('id', jobId).single() on ytg_jobs: the column is a
\* uuid, so a text that is not one is refused (22P02); no row is PGRST116
JobReadError(jobId, fault) ==
    IF fault = "job" THEN "08006"
    ELSE IF ~IsUuid(jobId) THEN "22P02"
    ELSE IF ~(job.exists /\ jobId = JobId) THEN "PGRST116"
    ELSE NULL

\* jobRes.error.code === 'PGRST116' ? 404 : 500
StatusCodeOf(code) == IF code = "PGRST116" THEN 404 ELSE 500

\* trendstory-status: the request arrives and the job row is selected; without a
\* job_id the answer is 400, an error of the select is answered 404 or 500, and
\* else the row read is kept for the body (statusHttp = 0: not answered yet)
GetStatus(jobId, fault) ==
    /\ ops.statusPc = "idle"
    /\ ops.statusCalls < MaxStatusCalls
    /\ LET e == JobReadError(jobId, fault)
           q == [ops EXCEPT !.statusCalls = @ + 1, !.statusBody = NULL,
                            !.statusScenes = 0, !.statusAssets = 0,
                            !.statusReq = [job_id |-> jobId, fault |-> fault]]
       IN ops' = IF jobId = "" THEN [q EXCEPT !.statusHttp = 400]
                 ELSE IF e # NULL THEN [q EXCEPT !.statusHttp = StatusCodeOf(e)]
                 ELSE [q EXCEPT !.statusPc = "scenes", !.statusHttp = 0, !.statusBody = job.status]
    /\ UNCHANGED <<now, job, scenes, assets, nextRowId, req, starts, runs, retry, chain, host, client>>

\* trendstory-status: the select of the scene rows of the job; an error is answered 500
StatusSelectScenes ==
    /\ ops.statusPc = "scenes"
    /\ ops' = IF ops.statusReq.fault = "scenes"
              THEN [ops EXCEPT !.statusPc = "idle", !.statusHttp = 500, !.statusBody = NULL]
              ELSE [ops EXCEPT !.statusPc = "assets",
                               !.statusScenes = Cardinality(ExistingSceneIds)]
    /\ UNCHANGED <<now, job, scenes, assets, nextRowId, req, starts, runs, retry, chain, host, client>>

\* trendstory-status: the select of the asset rows of the job; an error is
\* answered 500, and else 200 with the job row, the scene rows and the asset
\* rows as they were read
StatusSelectAssets ==
    /\ ops.statusPc = "assets"
    /\ ops' = IF ops.statusReq.fault = "assets"
              THEN [ops EXCEPT !.statusPc = "idle", !.statusHttp = 500, !.statusBody = NULL,
                               !.statusScenes = 0]
              ELSE [ops EXCEPT !.statusPc = "idle", !.statusHttp = 200,
                               !.statusAssets = Cardinality(assets)]
    /\ UNCHANGED <<now, job, scenes, assets, nextRowId, req, starts, runs, retry, chain, host, client>>

\* ------------------------------------------------------------------------
\* trendstory-retry-images: the handler and runRetryInBackground
\* ------------------------------------------------------------------------
\* environment of the function; 0 stands for an unset, empty or non-numeric variable
RetryMaxDepthEnvs == {-1, 0, 1, 2, 40}
RetryMaxRuntimeEnvs == {0}

\* maxRuntimeMs of runRetryInBackground
MaxRuntimeMsOf(env) == Max(5000, Min(IF env = 0 THEN 50000 ELSE env, 110000))

\* maxDepth of runRetryInBackground
MaxDepthOf(env) == Max(0, Min(IF env = 0 THEN 10 ELSE env, 30))

NoPayload == [has_scene_ids |-> FALSE, scene_ids |-> {}, missing_only |-> TRUE, depth |-> 0]

\* values of SUPABASE_SERVICE_ROLE_KEY and SUPABASE_ANON_KEY ("" is unset): a
\* JWT, a key with two segments, an opaque secret key, a blank string
Keys == {"", "  ", "sb_secret_x", "a.b", "a.b.c"}
\* String.prototype.trim and split('.').length on these keys
Trim(k) == IF k = "  " THEN "" ELSE k
Segments(t) == IF t = "a.b.c" THEN 3 ELSE IF t = "a.b" THEN 2 ELSE 1

\* pickJwtKey: the first key with three segments or more, else the first
\* non-empty key, else ''
PickJwtKey(keys) ==
    LET jwt == {i \in 1..Len(keys) : Trim(keys[i]) # "" /\ Segments(Trim(keys[i])) >= 3}
        any == {i \in 1..Len(keys) : Trim(keys[i]) # ""}
        first(S) == CHOOSE i \in S : \A j \in S : i <= j
    IN IF jwt # {} THEN Trim(keys[first(jwt)])
       ELSE IF any # {} THEN Trim(keys[first(any)])
       ELSE ""

\* buildEdgeFunctionAuthHeaders: apikey always, Authorization only for a JWT
BuildEdgeFunctionAuthHeaders(key) ==
    LET k == Trim(key) IN
    IF k = "" THEN [ok |-> FALSE, apikey |-> NULL, Authorization |-> NULL, jwtLike |-> FALSE]
    ELSE [ok |-> TRUE, apikey |-> k,
          Authorization |-> IF Segments(k) >= 3 THEN "Bearer " \o k ELSE NULL,
          jwtLike |-> Segments(k) >= 3]

NoAuth == [ok |-> FALSE, apikey |-> NULL, Authorization |-> NULL, jwtLike |-> FALSE]

IdleRetry ==
    [pc |-> "idle", depthEnv |-> 0, runtimeEnv |-> 0,
     payload |-> NoPayload, depth |-> 0,
     tasks |-> <<>>, idx |-> 0, startedAt |-> NoTime, genOk |-> FALSE,
     attempted |-> 0, succeeded |-> 0, failed |-> 0, skipped |-> 0,
     remainingSceneIds |-> <<>>, packager |-> NullPackager,
     next |-> NoPayload, auth |-> NoAuth, diag |-> "none", handlers |-> {},
     resp |-> [attempted |-> 0, succeeded |-> 0, failed |-> 0, skipped |-> 0, http |-> 0]]

\* what the chain of invocations has done so far: the client's request, the
\* scene ids of its task list, and how often each scene was attempted
NoChain ==
    [invocations |-> 0, request |-> NoPayload, original |-> {}, attempts |-> [s \in {} |-> 0]]

RECURSIVE AscendingIds(_)
\* the scene ids of a set in ascending order (order('scene_id', ascending))
AscendingIds(S) ==
    IF S = {} THEN <<>>
    ELSE LET m == CHOOSE x \in S : \A y \in S : x <= y
         IN <<m>> \o AscendingIds(S \ {m})

\* pushRuntimeLog on a packager that may be null
LogIf(p) == IF p.isNull THEN p ELSE PushLog(p)

\* promptByScene.get(sceneId): the prompt of the last entry of
\* packager.image_render_requests that names the scene and has a prompt
RenderRequestPrompt(p, sceneId) ==
    LET reqs == p.image_render_requests
        hits == {i \in 1..Len(reqs) : reqs[i].scene_id = sceneId /\ reqs[i].prompt # ""}
    IN IF p.isNull \/ hits = {} THEN ""
       ELSE reqs[CHOOSE i \in hits : \A j \in hits : j <= i].prompt

\* the prompt of a task: the row's prompt, else the prompt of the scene's render
\* request, else a derived one (never empty)
TaskPrompt(row, sceneId, p) ==
    IF row.image_prompt # NULL /\ row.image_prompt # "" THEN row.image_prompt
    ELSE IF RenderRequestPrompt(p, sceneId) # "" THEN RenderRequestPrompt(p, sceneId)
    ELSE DerivedPrompt(sceneId)

\* (a mutation that treats every request as missing_only = false)
SkipsSceneIgnoringMissingOnly(row, sceneId, payload, missingOnly) ==
    payload.has_scene_ids /\ sceneId \notin payload.scene_ids

\* the task selection loop of the handler: is this scene row skipped?
SkipsScene(row, sceneId, payload, missingOnly) ==
    \/ payload.has_scene_ids /\ sceneId \notin payload.scene_ids
    \/ missingOnly /\ row.image_url # NULL /\ row.image_url # ""

\* tasks and skipped of the handler
SelectTasks(rows, payload, p) ==
    LET missingOnly == payload.missing_only
        ids == AscendingIds({s \in DOMAIN rows : rows[s].id # NoRow})
        kept == SelectSeq(ids, LAMBDA s : ~SkipsScene(rows[s], s, payload, missingOnly))
    IN [tasks |-> [i \in 1..Len(kept) |->
                     [scene_id |-> kept[i], prompt |-> TaskPrompt(rows[kept[i]], kept[i], p)]],
        skipped |-> Len(ids) - Len(kept)]

\* the handler's select of the job row (id, input, packager, trace_id); the
\* chain counts the invocation (retry.handlers: the updates of ytg_jobs that the
\* handlers of the chain have issued and the database has not applied yet)
ServeRetry(payload, depthEnv, runtimeEnv) ==
    /\ job.exists
    /\ retry' = [IdleRetry EXCEPT
                   !.pc = "select_scenes", !.depthEnv = depthEnv, !.runtimeEnv = runtimeEnv,
                   !.payload = payload, !.depth = payload.depth,
                   !.packager = job.packager, !.handlers = retry.handlers]
    /\ chain' = [chain EXCEPT !.invocations = @ + 1,
                              !.request = IF chain.invocations = 0 THEN payload ELSE @]

\* a client request: { job_id, scene_ids?, missing_only? }
RetryRequest(payload, depthEnv, runtimeEnv) ==
    /\ retry.pc = "idle"
    /\ ServeRetry(payload, depthEnv, runtimeEnv)
    /\ UNCHANGED <<now, job, scenes, assets, nextRowId, req, starts, runs, host, ops, client>>

\* the budget test at the top of the loop
BudgetExceeded(startedAt, maxRuntimeMs) == now - startedAt > maxRuntimeMs

\* (a mutation that leaves the item under the budget test out of the rest)
RemainingAfter(tasks, idx) ==
    [i \in 1..(Len(tasks) - idx) |-> tasks[idx + i].scene_id]

\* tasks.slice(idx).map(scene_id), idx counted from 1; every scene_id is finite
RemainingFrom(tasks, idx) ==
    [i \in 1..(Len(tasks) - idx + 1) |-> tasks[idx + i - 1].scene_id]

\* runRetryInBackground from the top of its loop to its next await: the loop is
\* left at the end of the list (end log), or on the budget test (the rest is
\* handed over; warning and end log), or the item is started (attempted++ and
\* start log) and the image call is in flight
RetryLoop(r) ==
    IF r.idx > Len(r.tasks)
    THEN [r EXCEPT !.pc = "finish", !.packager = LogIf(@)]
    ELSE IF BudgetExceeded(r.startedAt, MaxRuntimeMsOf(r.runtimeEnv))
    THEN [r EXCEPT !.pc = "finish",
                   !.remainingSceneIds = RemainingFrom(r.tasks, r.idx),
                   !.packager = LogIf(LogIf(@))]
    ELSE [r EXCEPT !.pc = "generate", !.attempted = @ + 1, !.packager = LogIf(@)]

\* the attempts of the chain, once r has come to its next await
AttemptsAfter(attempts, r) ==
    IF r.pc = "generate" THEN [attempts EXCEPT ![r.tasks[r.idx].scene_id] = @ + 1] ELSE attempts

\* the handler's select of the scene rows, its task list and start log; then
\* runRetryInBackground is called, not awaited, and runs up to its first await
\* on the same packager object (background-start log, then the first turn of
\* the loop); then the handler issues its update { packager }, whose body is
\* the packager as it is now, or answers 202 at once when the packager is null
RetrySelectScenes ==
    /\ retry.pc = "select_scenes"
    /\ LET sel == SelectTasks(scenes, retry.payload, retry.packager)
           r == RetryLoop([retry EXCEPT
                    !.tasks = sel.tasks, !.idx = 1, !.startedAt = now,
                    !.packager = LogIf(LogIf(@)),
                    !.resp = [attempted |-> Len(sel.tasks), succeeded |-> 0, failed |-> 0,
                              skipped |-> sel.skipped, http |-> 0]])
           first == chain.invocations = 1
       IN /\ retry' = IF r.packager.isNull
                      THEN [r EXCEPT !.resp = [@ EXCEPT !.http = 202]]
                      ELSE [r EXCEPT !.handlers = @ \cup {[depth |-> r.depth, body |-> r.packager]}]
          /\ chain' = [chain EXCEPT
                         !.original = IF first
                                      THEN {sel.tasks[i].scene_id : i \in 1..Len(sel.tasks)} ELSE @,
                         !.attempts = AttemptsAfter(IF first THEN [s \in DOMAIN scenes |-> 0] ELSE @, r)]
    /\ UNCHANGED <<now, job, scenes, assets, nextRowId, req, starts, runs, host, ops, client>>

\* the database applies the update { packager } of a handler, and the handler
\* answers 202; the background function does not wait for it
RetryAccept ==
    /\ \E h \in retry.handlers :
         /\ job' = UpdateJob(job, [job EXCEPT !.packager = h.body])
         /\ retry' = [retry EXCEPT !.handlers = @ \ {h},
                                   !.resp = IF h.depth = retry.depth
                                            THEN [@ EXCEPT !.http = 202] ELSE @]
    /\ UNCHANGED <<now, scenes, assets, nextRowId, req, starts, runs, chain, host, ops, client>>

\* one item: the image call and the upload, which take time and succeed or
\* throw, and the update of the scene row; a throw is caught (failed++, error log)
RetryGenerate ==
    /\ retry.pc = "generate"
    /\ LET task == retry.tasks[retry.idx]
           s == task.scene_id
           path == ScenePath(s)
       IN \E ok \in BOOLEAN : \E d \in host.durations :
          /\ now' = now + d
          /\ scenes' = IF ok /\ scenes[s].id # NoRow
                       THEN [scenes EXCEPT ![s] = [@ EXCEPT !.image_path = path,
                                                     !.image_url = PublicUrl(path),
                                                     !.image_prompt = task.prompt]]
                       ELSE scenes
          /\ retry' = IF ok
                      THEN [retry EXCEPT !.pc = "insert_asset", !.genOk = TRUE]
                      ELSE [retry EXCEPT !.pc = "persist", !.genOk = FALSE,
                              !.failed = @ + 1, !.packager = LogIf(@)]
    /\ UNCHANGED <<job, assets, nextRowId, req, starts, runs, chain, host, ops, client>>

\* one item: the best-effort insert of the asset row (a refused insert is
\* logged), then succeeded++ and the complete log
RetryInsertAsset ==
    /\ retry.pc = "insert_asset"
    /\ LET s == retry.tasks[retry.idx].scene_id
           path == ScenePath(s)
       IN \E insOk \in BOOLEAN :
          /\ assets' = IF insOk /\ job.exists
                       THEN assets \cup {[type |-> "image", path |-> path, url |-> PublicUrl(path),
                                          scene_id |-> s, by |-> <<"retry", retry.depth>>]}
                       ELSE assets
          /\ retry' = [retry EXCEPT !.pc = "persist", !.succeeded = @ + 1,
                         !.packager = IF insOk /\ job.exists THEN LogIf(@) ELSE LogIf(LogIf(@))]
    /\ UNCHANGED <<now, job, scenes, nextRowId, req, starts, runs, chain, host, ops, client>>

\* one item: the best-effort update { packager } that ends the turn, and the
\* next turn of the loop up to its await
RetryPersist ==
    /\ retry.pc = "persist"
    /\ job' = UpdateJob(job, [job EXCEPT !.packager = retry.packager])
    /\ LET r == RetryLoop([retry EXCEPT !.idx = @ + 1]) IN
       /\ retry' = r
       /\ chain' = [chain EXCEPT !.attempts = AttemptsAfter(@, r)]
    /\ UNCHANGED <<now, scenes, assets, nextRowId, req, starts, runs, host, ops, client>>

\* (a mutation that requeues whenever work remains)
ShouldRequeueIgnoringDepth(remainingSceneIds, depth, maxDepth) == Len(remainingSceneIds) > 0

\* the self-requeue condition
ShouldRequeue(remainingSceneIds, depth, maxDepth) == Len(remainingSceneIds) > 0 /\ depth < maxDepth

\* the self-requeue returns without a request only when there is no key at all
RequeueAuthorized(auth) == auth.ok

\* the end of runRetryInBackground: the final update { packager }, then the
\* self-requeue: with a key, the request { scene_ids: remaining, missing_only:
\* true, depth: depth + 1 } is sent, after a warning when the key is not a JWT;
\* without a key an error is logged and the function returns
RetryFinish ==
    /\ retry.pc = "finish"
    /\ job' = UpdateJob(job, [job EXCEPT !.packager = retry.packager])
    /\ IF ShouldRequeue(retry.remainingSceneIds, retry.depth, MaxDepthOf(retry.depthEnv))
       THEN \E keys \in host.keys :
            LET auth == BuildEdgeFunctionAuthHeaders(PickJwtKey(keys)) IN
            retry' = IF RequeueAuthorized(auth)
                     THEN [retry EXCEPT !.pc = "requeue", !.auth = auth,
                             !.diag = IF auth.jwtLike THEN "none" ELSE "warn",
                             !.next = [has_scene_ids |-> TRUE,
                                       scene_ids |-> SeqRange(retry.remainingSceneIds),
                                       missing_only |-> TRUE,
                                       depth |-> retry.depth + 1]]
                     ELSE [retry EXCEPT !.pc = "done", !.auth = auth, !.diag = "error"]
       ELSE retry' = [retry EXCEPT !.pc = "done"]
    /\ UNCHANGED <<now, scenes, assets, nextRowId, req, starts, runs, chain, host, ops, client>>

\* the self-requeue request reaches the function: the next invocation
RetryContinuation ==
    /\ retry.pc = "requeue"
    /\ ServeRetry(retry.next, retry.depthEnv, retry.runtimeEnv)
    /\ UNCHANGED <<now, job, scenes, assets, nextRowId, req, starts, runs, host, ops, client>>

\* the self-requeue request fails (network error, rejected credentials)
RetryKickFails ==
    /\ retry.pc = "requeue"
    /\ retry' = [retry EXCEPT !.pc = "done"]
    /\ UNCHANGED <<now, job, scenes, assets, nextRowId, req, starts, runs, chain, host, ops, client>>

\* ------------------------------------------------------------------------
\* trendstory-retry-audio: the handler and runRetryAudio
\* ------------------------------------------------------------------------

\* trendstory-retry-audio: the handler starts runRetryAudio and answers 202 at once
AudioAccept ==
    /\ ops.audio.pc = "idle"
    /\ ops' = [ops EXCEPT !.audio = [IdleAudio EXCEPT !.pc = "select_job"], !.audioHttp = 202]
    /\ UNCHANGED <<now, job, scenes, assets, nextRowId, req, starts, runs, retry, chain, host, client>>

\* runRetryAudio: select of packager and final_package; no row is thrown
AudioSelectJob ==
    /\ ops.audio.pc = "select_job"
    /\ ops' = IF job.exists
              THEN [ops EXCEPT !.audio = [@ EXCEPT !.pc = "select_scenes",
                                            !.packager = job.packager,
                                            !.fp = job.final_package]]
              ELSE [ops EXCEPT !.audio = [IdleAudio EXCEPT !.pc = "done"]]
    /\ UNCHANGED <<now, job, scenes, assets, nextRowId, req, starts, runs, retry, chain, host, client>>

\* sceneRows of runRetryAudio: the scene rows with narration, in ascending scene_id
AudioSceneRows(rows) ==
    AscendingIds({s \in DOMAIN rows : rows[s].id # NoRow /\ rows[s].narration \notin {NULL, ""}})

\* runRetryAudio: select of the scene rows
AudioSelectScenes ==
    /\ ops.audio.pc = "select_scenes"
    /\ LET rows == AudioSceneRows(scenes) IN
       ops' = [ops EXCEPT !.audio = [@ EXCEPT
                  !.pc = IF Len(rows) = 0 THEN "final" ELSE "tts",
                  !.sceneRows = rows, !.idx = 1,
                  !.packager = IF Len(rows) = 0 THEN LogIf(@) ELSE @]]
    /\ UNCHANGED <<now, job, scenes, assets, nextRowId, req, starts, runs, retry, chain, host, client>>

\* runRetryAudio, one scene: speech, upload and the best-effort asset row
\* (start log, then complete log or error log, then a warning when the
\* asset insert is refused)
AudioTts ==
    /\ ops.audio.pc = "tts"
    /\ LET s == ops.audio.sceneRows[ops.audio.idx] IN
       \E ok \in BOOLEAN : \E insOk \in BOOLEAN :
          /\ assets' = IF ok /\ insOk /\ job.exists
                       THEN assets \cup {[type |-> "audio", path |-> AudioPath(s),
                                          url |-> PublicUrl(AudioPath(s)),
                                          scene_id |-> s, by |-> <<"retry-audio", 0>>]}
                       ELSE assets
          /\ ops' = [ops EXCEPT !.audio = [@ EXCEPT !.pc = "persist",
                        !.urls = IF ok THEN @ \cup {s} ELSE @,
                        !.packager = IF ok /\ ~(insOk /\ job.exists)
                                     THEN LogIf(LogIf(LogIf(@)))
                                     ELSE LogIf(LogIf(@))]]
    /\ UNCHANGED <<now, job, scenes, nextRowId, req, starts, runs, retry, chain, host, client>>

\* runRetryAudio, one scene: update { packager }
AudioPersist ==
    /\ ops.audio.pc = "persist"
    /\ job' = UpdateJob(job, [job EXCEPT !.packager = ops.audio.packager])
    /\ ops' = [ops EXCEPT !.audio = [@ EXCEPT
                  !.pc = IF ops.audio.idx >= Len(ops.audio.sceneRows) THEN "final" ELSE "tts",
                  !.idx = @ + 1]]
    /\ UNCHANGED <<now, scenes, assets, nextRowId, req, starts, runs, retry, chain, host, client>>

\* (a mutation that also marks the job SUCCEEDED)
AudioJobPatchWithStatus(j, p, fp, urls) ==
    [j EXCEPT !.packager = p, !.status = "SUCCEEDED", !.error = NULL]

\* the last update of runRetryAudio: { final_package: next, packager } when the
\* final_package read at the start was an object, else { packager }; next is the
\* object read at the start with its audio entry replaced
AudioJobPatch(j, p, fp, urls) ==
    IF fp.isNull
    THEN [j EXCEPT !.packager = p]
    ELSE [j EXCEPT !.packager = p, !.final_package = fp]

\* runRetryAudio: the final update
AudioFinal ==
    /\ ops.audio.pc = "final"
    /\ job' = UpdateJob(job, AudioJobPatch(job, ops.audio.packager, ops.audio.fp, ops.audio.urls))
    /\ ops' = [ops EXCEPT !.audio = [IdleAudio EXCEPT !.pc = "done"]]
    /\ UNCHANGED <<now, scenes, assets, nextRowId, req, starts, runs, retry, chain, host, client>>

\* the clock
Tick ==
    /\ now < MaxTicks * TickMs
    /\ now' = now + TickMs
    /\ UNCHANGED <<job, scenes, assets, nextRowId, req, starts, runs, retry, chain, host, ops, client>>

\* ------------------------------------------------------------------------
\* The OpenAI client of trendstory-start: openaiResponsesJson, openaiImagePng
\* and openaiTtsMp3. One action is one request of a call together with the
\* handling of its response, up to the next request, the return or the throw.
\* ------------------------------------------------------------------------
\* Array.from(new Set(list)): the first occurrence of each element, in order
RECURSIVE Dedup(_)
Dedup(list) ==
    IF list = <<>> THEN <<>>
    ELSE LET front == Dedup(SubSeq(list, 1, Len(list) - 1))
             last == list[Len(list)]
         IN IF \E i \in 1..Len(front) : front[i] = last THEN front ELSE Append(front, last)

\* values of OPENAI_IMAGE_SIZE ("" is unset) and of the *_MAX_ATTEMPTS
\* variables (0 is unset, "0" or not a number)
ImageSizeEnvs == {"", "1024x1024", "512x512"}
MaxAttemptsEnvs == {-2, 0, 1, 3, 9}
\* values of OPENAI_TEXT_MODEL ("" is unset)
TextModelEnvs == {"", "gpt-4o", "my-model"}

\* the candidate sizes of openaiImagePng
ImageSizes(envSize) == Dedup(SelectSeq(<<envSize, "1792x1024", "1024x1024">>, LAMBDA s : s # ""))

\* Math.max(1, Math.min(Number(env ?? '2') || 2, 5))
MaxAttemptsOf(env) == Max(1, Min(IF env = 0 THEN 2 ELSE env, 5))

\* getTextModelCandidates
TextModelCandidates(preferred, envModel) ==
    Dedup(SelectSeq(<<"gpt-5.2", preferred, envModel, "gpt-4o-mini", "gpt-4o">>, LAMBDA m : m # ""))

\* isModelAccessError, on the body of an error response
IsModelAccessError(body) == body \in {"model_not_found", "does not have access to model"}

\* what one request can meet: status 0 stands for a fetch that throws (the
\* timeout's AbortError, or a network failure), otherwise an HTTP response
Res(status, body) == [status |-> status, body |-> body]
NoRes == Res(-1, NULL)
FetchThrows == {Res(0, "AbortError"), Res(0, "network")}
ImageResponses ==
    FetchThrows \cup {Res(200, "b64_json"), Res(200, "url"), Res(200, "dead url"),
                      Res(200, "neither"), Res(200, "not json"),
                      Res(400, "error"), Res(401, "error"), Res(429, "error"), Res(500, "error")}
TextResponses ==
    {Res(0, "network"), Res(200, "object"), Res(200, "prose"), Res(200, "empty"), Res(200, "not json"),
     Res(400, "error"), Res(403, "does not have access to model"), Res(403, "error"),
     Res(404, "model_not_found"), Res(404, "error"), Res(429, "error"), Res(500, "error")}
TtsResponses ==
    FetchThrows \cup {Res(200, "mp3"), Res(400, "error"), Res(401, "error"),
                      Res(429, "error"), Res(500, "error")}

\* new Error(...) of the client: the message names the kind, the status, the
\* candidate and the attempt
Err(kind, status, candidate, attempt) ==
    [kind |-> kind, status |-> status, candidate |-> candidate, attempt |-> attempt]
NoErr == Err("none", -1, "", 0)

IdleClient ==
    [fn |-> "none", pc |-> "idle", candidates |-> <<>>, idx |-> 0, attempt |-> 0,
     maxAttempts |-> 0, requests |-> 0, res |-> NoRes, lastErr |-> NoErr, err |-> NoErr]

ClientChange(c) ==
    /\ client' = c
    /\ UNCHANGED <<now, job, scenes, assets, nextRowId, req, starts, runs, retry, chain, host, ops>>

\* the entry of the three functions: the candidate list and the attempt limit
CallImage(envSize, envAttempts) ==
    /\ client.pc = "idle"
    /\ ClientChange([IdleClient EXCEPT !.fn = "image", !.pc = "fetch",
                        !.candidates = ImageSizes(envSize), !.idx = 1, !.attempt = 1,
                        !.maxAttempts = MaxAttemptsOf(envAttempts)])

CallText(envModel) ==
    /\ client.pc = "idle"
    /\ ClientChange([IdleClient EXCEPT !.fn = "text", !.pc = "fetch",
                        !.candidates = TextModelCandidates("gpt-5.2", envModel), !.idx = 1,
                        !.attempt = 1, !.maxAttempts = 1])

CallTts(envAttempts) ==
    /\ client.pc = "idle"
    /\ ClientChange([IdleClient EXCEPT !.fn = "tts", !.pc = "fetch",
                        !.candidates = <<"speech">>, !.idx = 1, !.attempt = 1,
                        !.maxAttempts = MaxAttemptsOf(envAttempts)])

\* the ways one iteration of a request loop ends
Requested(c, res) == [c EXCEPT !.requests = @ + 1, !.res = res]
Returns(c) == [c EXCEPT !.pc = "returned"]
Throws(c, e) == [c EXCEPT !.pc = "thrown", !.err = e]
\* the throw after the loops: lastErr ?? new Error(fallback)
ThrowsLast(c, fallback) ==
    Throws(c, IF c.lastErr = NoErr THEN Err(fallback, -1, "", 0) ELSE c.lastErr)
\* break, or the end of the attempts of a candidate: the next candidate
NextCandidate(c, fallback) ==
    IF c.idx < Len(c.candidates) THEN [c EXCEPT !.idx = @ + 1, !.attempt = 1]
    ELSE ThrowsLast(c, fallback)
\* continue in the attempt loop
NextAttempt(c, fallback) ==
    IF c.attempt < c.maxAttempts THEN [c EXCEPT !.attempt = @ + 1]
    ELSE NextCandidate(c, fallback)
\* the mutant retries a 400 on the same size
ImageBadRequestRetried(c, fallback) == NextAttempt(c, fallback)

ImageBadRequest(c, fallback) == NextCandidate(c, fallback)

\* openaiImagePng: one request for a size and what follows from its response
ImageStep(c, res) ==
    LET size == c.candidates[c.idx]
        fallback == "OpenAI image error: no valid size worked"
        q == Requested(c, res)
    IN IF res.status = 0
         THEN NextAttempt([q EXCEPT !.lastErr = Err("OpenAI image request failed", 0, size, c.attempt)],
                          fallback)
       ELSE IF res.status # 200
         THEN LET e == Err("OpenAI image error", res.status, size, c.attempt)
                  f == [q EXCEPT !.lastErr = e]
              IN IF res.status = 400 THEN ImageBadRequest(f, fallback)
                 ELSE IF res.status = 429 \/ res.status >= 500 THEN NextAttempt(f, fallback)
                 ELSE Throws(f, e)
       ELSE IF res.body = "not json" THEN Throws(q, Err("SyntaxError", 200, size, c.attempt))
       ELSE IF res.body \in {"b64_json", "url"} THEN Returns(q)
       ELSE IF res.body = "dead url" THEN Throws(q, Err("Failed to fetch image URL", 200, size, c.attempt))
       ELSE NextAttempt([q EXCEPT !.lastErr =
                            Err("OpenAI image returned neither b64_json nor url", 200, size, c.attempt)],
                        fallback)

ImageFetch(res) ==
    /\ client.fn = "image"
    /\ client.pc = "fetch"
    /\ ClientChange(ImageStep(client, res))

\* openaiResponsesJson over openaiResponsesText: one request for a model. An
\* answer with no output text reaches the end of the loop body, so the loop
\* goes on with the next model; extractJsonObjectFromText throws on a text
\* with no JSON object
TextStep(c, res) ==
    LET model == c.candidates[c.idx]
        fallback == "OpenAI responses returned empty output_text"
        q == Requested(c, res)
    IN IF res.status = 0 THEN Throws(q, Err("fetch failed", 0, model, c.attempt))
       ELSE IF res.status # 200
         THEN LET e == Err("OpenAI responses error", res.status, model, c.attempt)
                  f == [q EXCEPT !.lastErr = e]
              IN IF res.status \in {403, 404} /\ IsModelAccessError(res.body)
                   THEN NextCandidate(f, fallback)
                 ELSE Throws(f, e)
       ELSE IF res.body = "not json" THEN Throws(q, Err("SyntaxError", 200, model, c.attempt))
       ELSE IF res.body = "object" THEN Returns(q)
       ELSE IF res.body = "prose"
         THEN Throws(q, Err("Failed to parse JSON object from output", 200, model, c.attempt))
       ELSE NextCandidate(q, fallback)

TextFetch(res) ==
    /\ client.fn = "text"
    /\ client.pc = "fetch"
    /\ ClientChange(TextStep(client, res))

\* the catch block of openaiTtsMp3: it wraps what the try block threw, the
\* errors the try block throws itself for a response included, and retries
\* while attempts are left
TtsCatch(c, cause) ==
    LET e == Err("OpenAI TTS request failed", cause, "speech", c.attempt)
        f == [c EXCEPT !.lastErr = e]
    IN IF c.attempt < c.maxAttempts THEN [f EXCEPT !.attempt = @ + 1] ELSE Throws(f, e)

\* openaiTtsMp3: one request and what follows from its response
TtsStep(c, res) ==
    LET fallback == "OpenAI TTS error: max attempts exceeded"
        q == Requested(c, res)
    IN IF res.status = 0 THEN TtsCatch(q, 0)
       ELSE IF res.status # 200
         THEN LET f == [q EXCEPT !.lastErr = Err("OpenAI TTS error", res.status, "speech", c.attempt)]
              IN IF res.status = 400 THEN TtsCatch(f, 400)
                 ELSE IF res.status = 429 \/ res.status >= 500 THEN NextAttempt(f, fallback)
                 ELSE TtsCatch(f, res.status)
       ELSE Returns(q)

TtsFetch(res) ==
    /\ client.fn = "tts"
    /\ client.pc = "fetch"
    /\ ClientChange(TtsStep(client, res))

\* ------------------------------------------------------------------------
\* Specification of the scene-image requests: a finished job with scene rows,
\* and MaxReqs requests arriving at any time
\* ------------------------------------------------------------------------
ClaimSceneIds == 1..ClaimScenes

SucceededJob ==
    [NoJob EXCEPT !.exists = TRUE, !.status = "SUCCEEDED",
                  !.autoconfig = [isNull |-> FALSE, scene_count |-> ClaimScenes],
                  !.packager = [InitialPackager EXCEPT !.autoconfig_status = "done",
                                                       !.packager_status = "done"],
                  !.final_package = [isNull |-> FALSE, scenes |-> ClaimScenes]]

ClaimInitRows(s) ==
    { [row EXCEPT !.narration = "text"] : row \in {FreshScene(s), RetriedScene(s, s), AbandonedScene(s)} }

InitClaim ==
    /\ now = 0
    /\ job = SucceededJob
    /\ scenes \in [SceneIds -> {AbsentScene} \cup UNION {ClaimInitRows(s) : s \in ClaimSceneIds}]
    /\ \A s \in SceneIds : scenes[s].id = IF s \in ClaimSceneIds THEN s ELSE NoRow
    /\ assets = {}
    /\ nextRowId = ClaimScenes + 1
    /\ req = [r \in Reqs |-> IdleReq]
    /\ starts = [k \in Starts |-> "idle"]
    /\ runs = [k \in Starts |-> IdleRun]
    /\ retry = IdleRetry
    /\ chain = NoChain
    /\ host = DefaultHost
    /\ ops = IdleOps
    /\ client = IdleClient

NextClaim ==
    \/ \E r \in Reqs, s \in ClaimSceneIds, force \in BOOLEAN : GenStart(r, s, force)
    \/ \E r \in Reqs : GenSelectScene(r)
    \/ \E r \in Reqs : ClaimCheck(r)
    \/ \E r \in Reqs : ClaimWrite(r)
    \/ \E r \in Reqs : Generate(r)
    \/ \E r \in Reqs : UpdateSucceeded(r)
    \/ \E r \in Reqs : InsertImageAsset(r)
    \/ \E r \in Reqs : UpdateFailed(r)
    \/ Tick

SpecClaim == InitClaim /\ [][NextClaim]_vars

\* ------------------------------------------------------------------------
\* Specification of the job pipeline: MaxStarts start requests, the first of
\* which creates the job and the later ones restart it, at any time
\* ------------------------------------------------------------------------
InitJob ==
    /\ now = 0
    /\ job = NoJob
    /\ scenes = [s \in SceneIds |-> AbsentScene]
    /\ assets = {}
    /\ nextRowId = 1
    /\ req = [r \in Reqs |-> IdleReq]
    /\ starts = [k \in Starts |-> "idle"]
    /\ runs = [k \in Starts |-> IdleRun]
    /\ retry = IdleRetry
    /\ chain = NoChain
    /\ host = DefaultHost
    /\ ops = IdleOps
    /\ client = IdleClient

NextJob ==
    \/ \E k \in Starts : StartCreate(k)
    \/ \E k \in Starts : RestartSelect(k)
    \/ \E k \in Starts : RestartReset(k)
    \/ \E k \in Starts : RestartDeleteScenes(k)
    \/ \E k \in Starts : RestartDeleteAssets(k)
    \/ \E k \in Starts : P_MarkRunning(k)
    \/ \E k \in Starts : P_InitPackager(k)
    \/ \E k \in Starts : P_Stage1(k)
    \/ \E k \in Starts : P_PersistAutoconfig(k)
    \/ \E k \in Starts : P_Stage2(k)
    \/ \E k \in Starts : P_Stage2Fallback(k)
    \/ \E k \in Starts : P_Repair(k)
    \/ \E k \in Starts : P_PersistPackager(k)
    \/ \E k \in Starts : P_InsertScenes(k)
    \/ \E k \in Starts : P_Tts(k)
    \/ \E k \in Starts : P_TtsPersist(k)
    \/ \E k \in Starts : P_ImagePrompts(k)
    \/ \E k \in Starts : P_ImagePromptsPersist(k)
    \/ \E k \in Starts : P_InsertJsonAsset(k)
    \/ \E k \in Starts : P_Succeed(k)
    \/ \E k \in Starts : P_Fail(k)

SpecJob == InitJob /\ [][NextJob]_vars

\* ------------------------------------------------------------------------
\* Specification of the bulk image retry: a finished job with RetryScenes scene
\* rows, some with an image, and one client request with its chain
\* ------------------------------------------------------------------------
RetrySceneIds == 1..RetryScenes

RetryPayloads ==
    [has_scene_ids : {FALSE}, scene_ids : {{}}, missing_only : BOOLEAN, depth : {0}]
    \cup [has_scene_ids : {TRUE}, scene_ids : {{1, 2}}, missing_only : BOOLEAN, depth : {0}]

\* the keys of the function's environment: the service-role key is not empty,
\* since getSupabaseServiceClient requires it before anything else
RetryHost ==
    [DefaultHost EXCEPT !.keys = {<<s, a>> : s \in Keys \ {""}, a \in Keys}]

\* the job's packager lists no render request, or one with a prompt for scene 1
\* and one without a prompt for scene 2
RetryRenderRequests == {<<>>, <<Irr(1, "p1"), Irr(2, "")>>}

InitRetry ==
    /\ now = 0
    /\ job \in {[SucceededJob EXCEPT !.packager.image_render_requests = reqs] : reqs \in RetryRenderRequests}
    /\ scenes \in [RetrySceneIds ->
                      {AbsentScene} \cup UNION {{FreshScene(s), RetriedScene(s, s)} : s \in RetrySceneIds}]
    /\ \A s \in RetrySceneIds : scenes[s].id \in {NoRow, s}
    /\ assets = {}
    /\ nextRowId = RetryScenes + 1
    /\ req = [r \in Reqs |-> IdleReq]
    /\ starts = [k \in Starts |-> "idle"]
    /\ runs = [k \in Starts |-> IdleRun]
    /\ retry = IdleRetry
    /\ chain = NoChain
    /\ host = RetryHost
    /\ ops = IdleOps
    /\ client = IdleClient

NextRetry ==
    \/ \E payload \in RetryPayloads, depthEnv \in RetryMaxDepthEnvs, runtimeEnv \in RetryMaxRuntimeEnvs :
         RetryRequest(payload, depthEnv, runtimeEnv)
    \/ RetrySelectScenes
    \/ RetryAccept
    \/ RetryGenerate
    \/ RetryInsertAsset
    \/ RetryPersist
    \/ RetryFinish
    \/ RetryContinuation
    \/ RetryKickFails

SpecRetry == InitRetry /\ [][NextRetry]_vars

\* ------------------------------------------------------------------------
\* Specification of job deletion: one job is created and its pipeline runs; a
\* bulk image retry and a delete request arrive at any time; status requests,
\* whose reads can fail, arrive once runDeleteJob has returned (SpecStatus has
\* the status requests that arrive before and during the deletion)
\* ------------------------------------------------------------------------
DeleteHost ==
    [counts |-> {1},
     outputs |-> {Out(<<>>, <<>>, <<>>), Out(<<Sc(1, "text")>>, <<>>, <<>>)},
     waitUntil |-> TRUE, dbFaults |-> FALSE, keys |-> {<<"a.b.c", "a.b.c">>},
     durations |-> ItemDurations]

DeletePayloads == [has_scene_ids : {FALSE}, scene_ids : {{}}, missing_only : {TRUE}, depth : {0}]

InitDelete ==
    /\ now = 0
    /\ job = NoJob
    /\ scenes = [s \in SceneIds |-> AbsentScene]
    /\ assets = {}
    /\ nextRowId = 1
    /\ req = [r \in Reqs |-> IdleReq]
    /\ starts = [k \in Starts |-> "idle"]
    /\ runs = [k \in Starts |-> IdleRun]
    /\ retry = IdleRetry
    /\ chain = NoChain
    /\ host = DeleteHost
    /\ ops = IdleOps
    /\ client = IdleClient

NextDelete ==
    \/ StartCreate(1)
    \/ P_MarkRunning(1)
    \/ P_InitPackager(1)
    \/ P_Stage1(1)
    \/ P_PersistAutoconfig(1)
    \/ P_Stage2(1)
    \/ P_Stage2Fallback(1)
    \/ P_Repair(1)
    \/ P_PersistPackager(1)
    \/ P_InsertScenes(1)
    \/ P_Tts(1)
    \/ P_TtsPersist(1)
    \/ P_ImagePrompts(1)
    \/ P_ImagePromptsPersist(1)
    \/ P_InsertJsonAsset(1)
    \/ P_Succeed(1)
    \/ P_Fail(1)
    \/ \E payload \in DeletePayloads : RetryRequest(payload, 1, 0)
    \/ RetrySelectScenes
    \/ RetryAccept
    \/ RetryGenerate
    \/ RetryInsertAsset
    \/ RetryPersist
    \/ RetryFinish
    \/ DeleteAccept
    \/ DeleteStorage
    \/ DeleteRow
    \/ ops.del = "done" /\ \E fault \in StatusFaults : GetStatus(JobId, fault)
    \/ StatusSelectScenes
    \/ StatusSelectAssets

SpecDelete == InitDelete /\ [][NextDelete]_vars

\* the background deletion is kept alive by EdgeRuntime.waitUntil until it returns
SpecDeleteFair == SpecDelete /\ WF_vars(DeleteStorage) /\ WF_vars(DeleteRow)

\* ------------------------------------------------------------------------
\* Specification of a single pipeline run: one job is created and runPipeline
\* runs undisturbed, over a wide range of provider answers, with and without
\* EdgeRuntime.waitUntil
\* ------------------------------------------------------------------------
PipeSceneIds == 1..PipeScenes

\* scene_count of stage 1: missing or non-numeric (0), negative, small, above 12
PipeSceneCounts == {0, -1, 1, 2, PipeScenes}

\* a stage-2 list of PipeScenes scenes, only the first with narration
LongScenes == [i \in PipeSceneIds |-> Sc(i, IF i = 1 THEN "text" ELSE "")]

PipeOutputs ==
    Stage2Outputs \cup
    { Out(<<Sc(1, "text")>>, <<>>, <<>>),
      Out(<<Sc(3, "text"), Sc(5, "")>>, <<Irr(5, "p5"), Irr(7, "p7")>>, <<>>),
      Out(<<Sc(NoId, "text"), Sc(1, "")>>, <<>>, <<>>),
      Out(<<Sc(1, "text"), Sc(2, "")>>, <<Irr(NoId, "p")>>, <<Irr(2, "q2"), Irr(1, "")>>),
      Out(LongScenes, <<>>, <<>>) }

InitPipe ==
    /\ now = 0
    /\ job = NoJob
    /\ scenes = [s \in PipeSceneIds |-> AbsentScene]
    /\ assets = {}
    /\ nextRowId = 1
    /\ req = [r \in Reqs |-> IdleReq]
    /\ starts = [k \in Starts |-> "idle"]
    /\ runs = [k \in Starts |-> IdleRun]
    /\ retry = IdleRetry
    /\ chain = NoChain
    /\ host \in [counts : {PipeSceneCounts}, outputs : {PipeOutputs}, waitUntil : BOOLEAN,
                  dbFaults : BOOLEAN, keys : {{<<"a.b.c", "a.b.c">>}}]
    /\ ops = IdleOps
    /\ client = IdleClient

NextPipe ==
    \/ StartCreate(1)
    \/ P_MarkRunning(1)
    \/ P_InitPackager(1)
    \/ P_Stage1(1)
    \/ P_PersistAutoconfig(1)
    \/ P_Stage2(1)
    \/ P_Stage2Fallback(1)
    \/ P_Repair(1)
    \/ P_PersistPackager(1)
    \/ P_InsertScenes(1)
    \/ P_Tts(1)
    \/ P_TtsPersist(1)
    \/ P_ImagePrompts(1)
    \/ P_ImagePromptsPersist(1)
    \/ P_InsertJsonAsset(1)
    \/ P_Succeed(1)
    \/ P_Fail(1)

SpecPipe == InitPipe /\ [][NextPipe]_vars

\* every call of the run returns, with a result or an error, so the run takes its
\* next step
SpecPipeFair == SpecPipe /\ WF_vars(NextPipe)

\* ------------------------------------------------------------------------
\* Specification of the OpenAI client: one call of one of the three
\* functions, under any setting of its environment variables, against a
\* provider that answers each request in any way
\* ------------------------------------------------------------------------
InitClient ==
    /\ now = 0
    /\ job = NoJob
    /\ scenes = [s \in SceneIds |-> AbsentScene]
    /\ assets = {}
    /\ nextRowId = 1
    /\ req = [r \in Reqs |-> IdleReq]
    /\ starts = [k \in Starts |-> "idle"]
    /\ runs = [k \in Starts |-> IdleRun]
    /\ retry = IdleRetry
    /\ chain = NoChain
    /\ host = DefaultHost
    /\ ops = IdleOps
    /\ client = IdleClient

NextClient ==
    \/ \E envSize \in ImageSizeEnvs, envAttempts \in MaxAttemptsEnvs : CallImage(envSize, envAttempts)
    \/ \E envModel \in TextModelEnvs : CallText(envModel)
    \/ \E envAttempts \in MaxAttemptsEnvs : CallTts(envAttempts)
    \/ \E res \in ImageResponses : ImageFetch(res)
    \/ \E res \in TextResponses : TextFetch(res)
    \/ \E res \in TtsResponses : TtsFetch(res)

SpecClient == InitClient /\ [][NextClient]_vars

\* ------------------------------------------------------------------------
\* Properties of the OpenAI client (SpecClient)
\* ------------------------------------------------------------------------
\* a step of the client that sends a request of the function fn
Fetches(fn) == client.fn = fn /\ client.pc = "fetch" /\ client' # client

\* a timeout, a network failure, a 429 or a 5xx
Transient(res) == res.status = 0 \/ res.status = 429 \/ res.status >= 500

\* the call goes on with the next candidate, or ends with a throw when the
\* candidate was the last one
MovesToNextCandidate ==
    IF client.idx < Len(client.candidates)
      THEN client'.pc = "fetch" /\ client'.idx = client.idx + 1 /\ client'.attempt = 1
      ELSE client'.pc = "thrown"

\* the call goes on with the next attempt for the same candidate
RetriesSameCandidate ==
    client'.pc = "fetch" /\ client'.idx = client.idx /\ client'.attempt = client.attempt + 1

\* C31: in openaiImagePng a 400 for a size is not retried on that size and the
\* next size is tried; a timeout, a network failure, a 429 or a 5xx is retried
\* on the same size until the attempt limit (1..5, 2 when unset) and only then
\* the next size is tried; every step sends one request and a call sends at
\* most (number of sizes) x (attempt limit) requests, so it ends
C31_ImageSizeAndAttemptLoops ==
    [][ /\ client'.fn = "image" =>
             /\ client'.maxAttempts \in 1..5
             /\ client'.requests <= Len(client'.candidates) * client'.maxAttempts
        /\ MaxAttemptsOf(0) = 2
        /\ Fetches("image") =>
             /\ client'.requests = client.requests + 1
             /\ client'.res.status = 400 => MovesToNextCandidate
             /\ Transient(client'.res) =>
                  IF client.attempt < client.maxAttempts THEN RetriesSameCandidate
                  ELSE MovesToNextCandidate ]_vars

\* a 429 on the first size was retried on it, and the 400 that answered the
\* retry moved the call to the second size with attempts still left
C31_Witness ==
    /\ client.fn = "image"
    /\ client.pc = "fetch"
    /\ client.maxAttempts = 3
    /\ client.requests = 2
    /\ client.res.status = 400
    /\ client.idx = 2
    /\ client.attempt = 1

\* a response of the client-error class that is neither the rate limit nor,
\* for the function fn, the exception that moves to the next candidate
PermanentClientError(fn, res) ==
    /\ res.status \in 400..499
    /\ res.status # 429
    /\ ~(fn = "image" /\ res.status = 400)
    /\ ~(fn = "text" /\ res.status \in {403, 404} /\ IsModelAccessError(res.body))

\* C32: openaiImagePng and openaiTtsMp3 send no further request after a
\* client-error response other than the image 400 (for speech a 400 included)
\* and throw that error; whenever they throw, after the last candidate and
\* attempt too, the error thrown is the one of the last request
C32_ClientErrorsAreNotRetried ==
    [][\A fn \in {"image", "tts"} :
         Fetches(fn) =>
           /\ PermanentClientError(fn, client'.res) => client'.pc = "thrown"
           /\ client'.pc = "thrown" =>
                /\ client'.err.status = client'.res.status
                /\ client'.err.attempt = client.attempt
                /\ client'.err.candidate = client.candidates[client.idx] ]_vars

\* C33: openaiResponsesJson tries the candidate models in order and goes on
\* to the next model only after a 403 or 404 that is a model-access or
\* model-not-found error; after any other answer, an empty or unparseable
\* output of a successful response included, it sends no further request
C33_NextModelOnlyOnAccessError ==
    [][Fetches("text") =>
         /\ client'.requests = client.requests + 1
         /\ client'.pc = "fetch" =>
              /\ client'.res.status \in {403, 404}
              /\ IsModelAccessError(client'.res.body)
              /\ client'.idx = client.idx + 1 ]_vars

\* C34: every call of the client retries a transient failure (timeout, 429,
\* 5xx) and gives up on one only at its attempt limit, which is between 1 and
\* 5; in particular the text call used by stage 1 and stage 2 does not fail,
\* and so does not fail the job, on a single 429 or 5xx answer
C34_TransientFailuresAreRetried ==
    [][\A fn \in {"text", "image", "tts"} :
         (Fetches(fn) /\ Transient(client'.res) /\ client'.pc = "thrown") =>
           /\ client.maxAttempts \in 1..5
           /\ client.attempt = client.maxAttempts
           /\ ~(fn = "text" /\ client.requests = 0 /\ client'.res.status >= 429) ]_vars

\* ------------------------------------------------------------------------
\* Properties of a single pipeline run (SpecPipe)
\* ------------------------------------------------------------------------
\* the scene_ids of the scene rows of the job
RowIds == {s \in DOMAIN scenes : scenes[s].id # NoRow}

\* the first n scenes of a stage-2 list lack an index or repeat one
IndicesMissingOrDuplicated(list, n) ==
    LET m == Min(Len(list), n) IN
    \/ \E i \in 1..m : list[i].scene_id = NoId
    \/ \E i \in 1..m : \E j \in 1..m : i # j /\ list[i].scene_id = list[j].scene_id

\* C13: the insert of a validated (non-empty) scene list creates exactly one row
\* per validated scene; the list is in ascending order of pairwise distinct
\* indices, and when the stage-2 list had missing or duplicated indices the rows
\* carry exactly the indices 1..N.
C13_InsertedScenesWellIndexed ==
    [][(runs[1].pc = "insert_scenes" /\ runs'[1].pc # "insert_scenes") =>
         LET list == runs[1].scenes
             inserted == {s \in DOMAIN scenes : scenes'[s].id # NoRow}
         IN /\ Cardinality(inserted) = Len(list)
            /\ \A i \in 1..Len(list) : \A j \in 1..Len(list) :
                   i < j => list[i].scene_id < list[j].scene_id
            /\ IndicesMissingOrDuplicated(runs[1].packager.scenes, TargetCount(runs[1].scene_count))
                   => inserted = 1..Len(list)
    ]_vars

\* C14: a stage-2 scene list goes on to the insert only if it has at least the
\* configured number of scenes (a shorter, non-empty list goes to the repair
\* request), and a job is never SUCCEEDED with fewer scene rows than configured.
C14_ValidationRequiresConfiguredCount ==
    /\ [][(runs[1].pc \in {"stage2", "stage2_fallback"} /\ runs'[1].pc = "persist_packager") =>
            Len(runs'[1].scenes) >= TargetCount(runs[1].scene_count)]_vars
    /\ [](job.status = "SUCCEEDED" =>
            Cardinality(RowIds) >= TargetCount(job.autoconfig.scene_count))

\* C15: a job marked SUCCEEDED by a pipeline run has between 1 and 12 scene rows,
\* whatever scene_count stage 1 returned.
C15_SucceededSceneCountInRange ==
    job.status = "SUCCEEDED" => (Cardinality(RowIds) >= 1 /\ Cardinality(RowIds) <= 12)

\* a job succeeded with 12 rows after stage 1 asked for more than 12 scenes
C15_Witness ==
    /\ job.status = "SUCCEEDED"
    /\ job.autoconfig.scene_count > 12
    /\ Cardinality(RowIds) = 12

\* C16: in a SUCCEEDED job the persisted image_render_requests list is not empty,
\* and each entry has a non-empty prompt and the scene_id of a scene row of the
\* job.
C16_ImagePromptsCoverScenes ==
    job.status = "SUCCEEDED" =>
        LET list == job.packager.image_render_requests IN
        /\ Len(list) > 0
        /\ \A i \in 1..Len(list) : list[i].prompt # "" /\ list[i].scene_id \in RowIds

\* C18: without EdgeRuntime.waitUntil a handler answers only after its work has
\* finished: trendstory-start after runPipeline has ended, and likewise
\* trendstory-delete-job, trendstory-retry-images and trendstory-retry-audio.
C18_SynchronousWithoutWaitUntil ==
    ~host.waitUntil =>
        /\ \A k \in Starts : starts[k] = "done" => runs[k].pc = "done"
        /\ ops.delHttp = 202 => ops.del = "done"
        /\ retry.resp.http = 202 => retry.pc = "done"
        /\ ops.audioHttp = 202 => ops.audio.pc = "done"

\* the positions of a run before its stage-1 call has returned
BeforeStage1Returned == {"start", "init_packager", "stage1"}

\* the positions of a run before its stage-2 output has passed the empty check
BeforeStage2Completed ==
    BeforeStage1Returned \cup {"persist_autoconfig", "stage2", "stage2_fallback", "repair"}

\* C21: during a run, autoconfig (stage1_result) is null until the stage-1 call has
\* returned, and packager (stage2_result) is null until the stage-2 call, its
\* validation and repair included, has completed.
C21_StageResultsNullUntilStageDone ==
    /\ runs[1].pc \in BeforeStage1Returned => job.autoconfig.isNull
    /\ runs[1].pc \in BeforeStage2Completed => job.packager.isNull

\* the positions of a run at which a provider call is about to be issued
AtStage1Call == {"stage1"}
AtStage2Call == {"stage2", "stage2_fallback", "repair"}
AtSpeechCall == {"tts", "tts_persist"}
AfterSpeech == {"image_prompts", "image_prompts_persist", "json_asset", "succeed"}

\* C23: within one run the steps come in order and each is persisted before the
\* next begins: status RUNNING before the stage-1 call; autoconfig before a
\* stage-2 call; the stage-2 packager before the scene rows are inserted; the
\* scene rows before speech; speech for every scene before the image-prompt list;
\* the image-prompt list before final_package and SUCCEEDED. A run whose persist
\* of autoconfig or of the packager failed is never at a later step.
C23_StagesInOrderEachPersisted ==
    LET r == runs[1]
        ids == {r.scenes[i].scene_id : i \in 1..Len(r.scenes)}
    IN /\ r.pc \in AtStage1Call \cup AtStage2Call \cup AtSpeechCall => job.status = "RUNNING"
       /\ r.pc \in AtStage2Call \cup {"persist_packager", "insert_scenes"} \cup AtSpeechCall \cup AfterSpeech =>
              ~job.autoconfig.isNull /\ job.autoconfig.scene_count = r.scene_count
       /\ r.pc \in {"insert_scenes"} \cup AtSpeechCall \cup AfterSpeech =>
              job.packager.packager_status = "done" /\ job.packager.scenes = r.packager.scenes
       /\ r.pc \in AtSpeechCall \cup AfterSpeech => RowIds = ids
       /\ r.pc \in AfterSpeech => r.ttsIdx > Len(TtsTargets(r.scenes))
       /\ r.pc \in {"json_asset", "succeed"} =>
              job.packager.image_render_requests = r.packager.image_render_requests
       /\ job.status = "SUCCEEDED" => r.pc = "done" /\ ~job.final_package.isNull

\* C24: when the first stage-2 output has no usable scene list, exactly one repair
\* request is issued, and when its output has a valid scene list the run recovers:
\* it goes on to persist the packager and to insert the repaired scenes.
C24_RepairRecovers ==
    /\ [][(runs[1].pc = "repair" /\ runs'[1].pc # "repair") =>
            /\ runs'[1].stage2Calls = runs[1].stage2Calls + 1
            /\ runs'[1].repair = "valid" =>
                   runs'[1].pc = "persist_packager" /\ Len(runs'[1].scenes) > 0]_vars
    /\ [][runs'[1].pc = "repair" => runs[1].repair = "none"]_vars

\* C25: every job that a start request created eventually has a terminal status,
\* SUCCEEDED or FAILED, provided every call returns a result or an error; and a
\* job that ends FAILED carries the message of the error that ended its run.
C25_EveryJobEndsTerminal ==
    /\ (starts[1] = "done") ~> (job.status \in {"SUCCEEDED", "FAILED"})
    /\ [](job.status = "FAILED" => (job.error # NULL /\ job.error = runs[1].errMsg))

\* the scene rows that have narration
NarratedRows == {s \in RowIds : scenes[s].narration \notin {NULL, ""}}

\* C26: in stage 3 a failed speech call or upload neither ends the loop nor fails
\* the job. Each turn of the loop attempts the next scene with narration and
\* counts it once, as done or as failed; a SUCCEEDED job has
\* tts_scenes_done + tts_scenes_failed = tts_scenes_total, one attempt for each
\* scene row with narration.
C26_SpeechFailuresDoNotStopTheRun ==
    /\ [][runs[1].pc \in {"tts", "tts_persist"} => runs'[1].pc \in {"tts", "tts_persist", "image_prompts"}]_vars
    /\ [][(runs[1].pc = "tts" /\ runs'[1].ttsIdx # runs[1].ttsIdx) =>
            LET p == runs[1].packager
                q == runs'[1].packager
            IN /\ runs'[1].ttsIdx = runs[1].ttsIdx + 1
               /\ q.tts_scenes_done + q.tts_scenes_failed = p.tts_scenes_done + p.tts_scenes_failed + 1
               /\ q.tts_scenes_done + q.tts_scenes_failed = runs[1].ttsIdx]_vars
    /\ [](job.status = "SUCCEEDED" =>
            /\ job.packager.tts_scenes_done + job.packager.tts_scenes_failed = job.packager.tts_scenes_total
            /\ job.packager.tts_scenes_total = Cardinality(NarratedRows))

\* a job ended SUCCEEDED although the speech of each of its two scenes failed
C26_Witness ==
    /\ job.status = "SUCCEEDED"
    /\ job.packager.tts_scenes_total = 2
    /\ job.packager.tts_scenes_failed = 2
    /\ Cardinality(NarratedRows) = 2
    /\ \A a \in assets : a.type # "audio"

\* C27: a run issues no image generation and waits for none: as long as no
\* scene-image request and no bulk retry has run, every scene row has a null
\* image path, image URL and claim status and there is no image asset, also once
\* the job is SUCCEEDED.
C27_PipelineLeavesImagesUntouched ==
    ((\A r \in Reqs : req[r].pc = "idle") /\ retry.pc = "idle") =>
        /\ \A s \in RowIds : /\ scenes[s].image_url = NULL
                             /\ scenes[s].image_path = NULL
                             /\ scenes[s].image_gen_status = NULL
                             /\ scenes[s].image_gen_request_id = NoReq
        /\ \A a \in assets : a.type # "image"

\* a SUCCEEDED job with two scene rows and a persisted image-prompt list
C27_Witness ==
    /\ job.status = "SUCCEEDED"
    /\ Cardinality(RowIds) = 2
    /\ Len(job.packager.image_render_requests) > 0
    /\ \A r \in Reqs : req[r].pc = "idle"
    /\ retry.pc = "idle"

\* C28: a refused insert of an asset row is swallowed: neither the insert of the
\* audio asset of a scene nor the insert of the metadata-marker asset sends the
\* run to its catch block, so neither makes the job FAILED.
C28_AssetInsertFailureIsSwallowed ==
    [][runs[1].pc \in {"tts", "json_asset"} => runs'[1].pc # "catch"]_vars

\* C35: when the stage-2 call with web search throws, the run does not fail
\* there: exactly one call without web search follows, its answer is the one
\* merged into the package, and the run fails at this point only when that call
\* throws too; a run makes at most three stage-2 calls (with web search,
\* without, repair)
C35_Stage2FallsBackOnce ==
    [][ /\ (runs[1].pc = "stage2" /\ runs'[1] # runs[1]) =>
             /\ runs'[1].pc \in {"stage2_fallback", "repair", "persist_packager"}
             /\ runs'[1].stage2Calls = 1
        /\ (runs[1].pc = "stage2_fallback" /\ runs'[1] # runs[1]) =>
             /\ runs'[1].stage2Calls = 2
             /\ \/ runs'[1].pc = "catch"
                \/ /\ runs'[1].pc \in {"repair", "persist_packager"}
                   /\ \E out \in host.outputs :
                        /\ runs'[1].packager.scenes = out.scenes
                        /\ runs'[1].scenes = NormalizeScenes(out.scenes, TargetCount(runs[1].scene_count))
        /\ runs'[1].stage2Calls <= 3 ]_vars

\* the call with web search threw, the one without returned an empty list and
\* the repair call was made: three calls
C35_Witness ==
    /\ runs[1].stage2Calls = 3
    /\ runs[1].first = "empty"
    /\ runs[1].repair # "none"

\* ------------------------------------------------------------------------
\* Specification of the status requests: one job is created, its pipeline runs
\* and the job may be deleted, while status requests with any job_id arrive and
\* their reads succeed or fail
\* ------------------------------------------------------------------------
NextStatus ==
    \/ StartCreate(1)
    \/ P_MarkRunning(1)
    \/ P_InitPackager(1)
    \/ P_Stage1(1)
    \/ P_PersistAutoconfig(1)
    \/ P_Stage2(1)
    \/ P_Stage2Fallback(1)
    \/ P_Repair(1)
    \/ P_PersistPackager(1)
    \/ P_InsertScenes(1)
    \/ P_Tts(1)
    \/ P_TtsPersist(1)
    \/ P_ImagePrompts(1)
    \/ P_ImagePromptsPersist(1)
    \/ P_InsertJsonAsset(1)
    \/ P_Succeed(1)
    \/ P_Fail(1)
    \/ DeleteAccept
    \/ DeleteStorage
    \/ DeleteRow
    \/ \E jobId \in StatusJobIds : \E fault \in StatusFaults : GetStatus(jobId, fault)
    \/ StatusSelectScenes
    \/ StatusSelectAssets

SpecStatus == InitDelete /\ [][NextStatus]_vars

\* ------------------------------------------------------------------------
\* Properties of the status requests (SpecStatus)
\* ------------------------------------------------------------------------
\* C22: a status request that carries a job_id is answered 404 exactly when no job
\* row has that id (and the read of the job did not fail for another reason), 500
\* when the read of the job, of the scenes or of the assets fails for another
\* reason, and else 200 with the status of the job row in the status field.
C22_StatusResponseCodes ==
    [][ /\ (ops'.statusCalls # ops.statusCalls /\ ops'.statusReq.job_id # "") =>
             LET jobId == ops'.statusReq.job_id
                 fault == ops'.statusReq.fault
                 found == job.exists /\ jobId = JobId
             IN /\ fault # "job" => (ops'.statusHttp = 404 <=> ~found)
                /\ fault = "job" => ops'.statusHttp = 500
                /\ (found /\ fault # "job") =>
                       ops'.statusPc = "scenes" /\ ops'.statusBody = job.status
        /\ (ops.statusPc # "idle" /\ ops'.statusPc = "idle") =>
             /\ ops.statusReq.fault \in {"scenes", "assets"} => ops'.statusHttp = 500
             /\ ops.statusReq.fault = "none" =>
                    ops'.statusHttp = 200 /\ ops'.statusBody = ops.statusBody ]_vars

\* ------------------------------------------------------------------------
\* Specification of the image generations of one scene: a finished job with a
\* scene row, one scene-image request and one bulk image retry arriving at any
\* time (with one scene the first item is the last, so nothing is handed over)
\* ------------------------------------------------------------------------
ImagePayloads == [has_scene_ids : {FALSE}, scene_ids : {{}}, missing_only : BOOLEAN, depth : {0}]

NextImages ==
    \/ \E force \in BOOLEAN : GenStart(1, 1, force)
    \/ GenSelectScene(1)
    \/ ClaimCheck(1)
    \/ ClaimWrite(1)
    \/ Generate(1)
    \/ UpdateSucceeded(1)
    \/ InsertImageAsset(1)
    \/ UpdateFailed(1)
    \/ \E payload \in ImagePayloads : RetryRequest(payload, 1, 0)
    \/ RetrySelectScenes
    \/ RetryAccept
    \/ RetryGenerate
    \/ RetryInsertAsset
    \/ RetryPersist
    \/ RetryFinish
    \/ Tick

SpecImages == InitClaim /\ [][NextImages]_vars

\* ------------------------------------------------------------------------
\* Properties of the image generations of one scene (SpecImages)
\* ------------------------------------------------------------------------
\* the generations in flight for scene s: a scene-image request between its claim
\* and its completion update, and the bulk retry between the image call of an item
\* and the update of the scene row
InFlight(s) ==
    {<<"generate", r>> : r \in {q \in Reqs : req[q].pc \in {"generate", "update"} /\ req[q].sceneId = s}}
    \cup (IF /\ retry.pc = "generate"
             /\ retry.tasks[retry.idx].scene_id = s
          THEN {<<"retry", 0>>} ELSE {})

\* scene s is under a GENERATING claim that is not stale
FreshlyClaimed(s) ==
    /\ scenes[s].image_gen_status = "GENERATING"
    /\ scenes[s].image_gen_started_at # NoTime
    /\ scenes[s].image_gen_started_at >= now - StaleMsOf(EnvLockStaleMs)

\* C29: at most one image generation is in flight for a scene, whether started by
\* a scene-image request or by the bulk retry, and nothing but the holder of the
\* claim writes the image of a scene that is under a GENERATING claim that is not
\* stale.
C29_OneGenerationPerScene ==
    /\ [](\A s \in ClaimSceneIds : Cardinality(InFlight(s)) <= 1)
    /\ [][\A s \in ClaimSceneIds :
            (FreshlyClaimed(s) /\ scenes'[s].image_url # scenes[s].image_url) =>
                \E r \in Reqs : /\ req[r].pc = "update" /\ req[r].sceneId = s
                                /\ scenes[s].image_gen_request_id = req[r].requestId]_vars

\* ------------------------------------------------------------------------
\* Specification of the side operations: one job is created and its pipeline
\* runs, while the client sends one side request (a scene-image request, a bulk
\* image retry, whose continuations follow, or an audio retry) at any point of
\* the run; time passes with the items of the bulk retry
\* ------------------------------------------------------------------------
\* the client has sent no side request yet
NoSideRequestYet ==
    /\ \A r \in Reqs : req[r].pc = "idle"
    /\ retry.pc = "idle"
    /\ ops.audio.pc = "idle"

\* two scenes are configured and the provider answers stage 2 with no scene or
\* with two narrated scenes, so that a bulk retry can run out of time with an
\* item left
SideHost ==
    [DeleteHost EXCEPT !.counts = {2},
                       !.outputs = {Out(<<>>, <<>>, <<>>),
                                    Out(<<Sc(1, "text"), Sc(2, "text")>>, <<>>, <<>>)}]

InitSide ==
    /\ now = 0
    /\ job = NoJob
    /\ scenes = [s \in SceneIds |-> AbsentScene]
    /\ assets = {}
    /\ nextRowId = 1
    /\ req = [r \in Reqs |-> IdleReq]
    /\ starts = [k \in Starts |-> "idle"]
    /\ runs = [k \in Starts |-> IdleRun]
    /\ retry = IdleRetry
    /\ chain = NoChain
    /\ host = SideHost
    /\ ops = IdleOps
    /\ client = IdleClient

NextSide ==
    \/ StartCreate(1)
    \/ P_MarkRunning(1)
    \/ P_InitPackager(1)
    \/ P_Stage1(1)
    \/ P_PersistAutoconfig(1)
    \/ P_Stage2(1)
    \/ P_Stage2Fallback(1)
    \/ P_Repair(1)
    \/ P_PersistPackager(1)
    \/ P_InsertScenes(1)
    \/ P_Tts(1)
    \/ P_TtsPersist(1)
    \/ P_ImagePrompts(1)
    \/ P_ImagePromptsPersist(1)
    \/ P_InsertJsonAsset(1)
    \/ P_Succeed(1)
    \/ P_Fail(1)
    \/ NoSideRequestYet /\ \E force \in BOOLEAN : GenStart(1, 1, force)
    \/ GenSelectScene(1)
    \/ ClaimCheck(1)
    \/ ClaimWrite(1)
    \/ Generate(1)
    \/ UpdateSucceeded(1)
    \/ InsertImageAsset(1)
    \/ UpdateFailed(1)
    \/ NoSideRequestYet /\ \E payload \in DeletePayloads : RetryRequest(payload, 1, 0)
    \/ RetrySelectScenes
    \/ RetryAccept
    \/ RetryGenerate
    \/ RetryInsertAsset
    \/ RetryPersist
    \/ RetryFinish
    \/ RetryContinuation
    \/ RetryKickFails
    \/ NoSideRequestYet /\ AudioAccept
    \/ AudioSelectJob
    \/ AudioSelectScenes
    \/ AudioTts
    \/ AudioPersist
    \/ AudioFinal

SpecSide == InitSide /\ [][NextSide]_vars

\* ------------------------------------------------------------------------
\* Properties of the side operations (SpecSide)
\* ------------------------------------------------------------------------
\* the step belongs to a scene-image request, to the bulk image retry or to the
\* audio retry
SideStep == req' # req \/ retry' # retry \/ ops'.audio # ops.audio

\* C19: no step of a scene-image request, of the bulk image retry (continuations
\* included) or of the audio retry changes the status or the error of the job,
\* whatever the pipeline run is doing.
C19_SideOperationsKeepStatus ==
    [][SideStep => (job'.status = job.status /\ job'.error = job.error)]_vars

\* while the job was RUNNING, a bulk retry ran out of time, and its continuation
\* generated the image of the scene and finished
C19_Witness ==
    /\ job.status = "RUNNING"
    /\ retry.pc = "done" /\ retry.depth = 1 /\ retry.succeeded = 1
    /\ chain.invocations = 2
    /\ \E a \in assets : a.by = <<"retry", 1>>

\* C38: the packager column is written back without lock or version check:
\* every write-back of the pipeline (per scene of the speech loop, after the
\* image-prompt normalisation, with SUCCEEDED), of the bulk image retry (per
\* item, at the end, and by its handler) and of the audio retry (per scene, at
\* the end) stores the writer's own copy whatever the row holds, so the last
\* write wins
C38_WriteBacksAreNeverRejected ==
    [][job.exists =>
        /\ (runs[1].pc = "tts_persist" /\ runs'[1].pc # "tts_persist") =>
              job'.packager = runs[1].packager
        /\ (runs[1].pc \in {"image_prompts", "image_prompts_persist"} /\ runs'[1].pc # runs[1].pc) =>
              job'.packager = runs'[1].packager
        /\ (runs[1].pc = "succeed" /\ runs'[1].pc = "done") =>
              job'.packager = runs[1].packager
        /\ \A h \in retry.handlers : h \notin retry'.handlers => job'.packager = h.body
        /\ (retry.pc \in {"persist", "finish"} /\ retry'.pc # retry.pc) =>
              job'.packager = retry.packager
        /\ (ops.audio.pc \in {"persist", "final"} /\ ops'.audio # ops.audio) =>
              job'.packager = ops.audio.packager ]_vars

\* the first invocation of the bulk retry read the packager before the
\* pipeline's speech loop counted a scene as done; the pipeline has left the
\* speech loop, so it persisted its counter (tts_scenes_done >= 1) with the
\* update of every scene (in SpecSide no update fails), and has not written
\* since; the row holds the copy of the retry, written back by its last item
\* with the counter at 0: the progress the pipeline persisted in between is
\* overwritten
C38_Witness ==
    /\ job.exists
    /\ runs[1].pc \in {"image_prompts", "image_prompts_persist", "json_asset", "succeed"}
    /\ runs[1].packager.tts_scenes_done >= 1
    /\ retry.pc = "finish"
    /\ retry.depth = 0
    /\ retry.packager = PushLog(job.packager)
    /\ job.packager.tts_scenes_done = 0

\* ------------------------------------------------------------------------
\* Properties of job deletion (SpecDeleteFair)
\* ------------------------------------------------------------------------
\* neither the job row nor any of its scene or asset rows exists
JobGone ==
    /\ ~job.exists
    /\ \A s \in DOMAIN scenes : scenes[s].id = NoRow
    /\ assets = {}

\* C11: once a delete request for an existing job is accepted, the job row and
\* its scene and asset rows are eventually removed; from then on (runDeleteJob
\* has returned) every status request is answered 404, and no step of a pipeline
\* run or of a retry that is still running brings back the job row, a scene row
\* or an asset row.
C11_DeletedJobStaysGone ==
    /\ (ops.del # "idle") ~> JobGone
    /\ [][(ops.del = "done") => JobGone']_vars
    /\ [][(ops.del = "done" /\ ops'.statusCalls # ops.statusCalls) => ops'.statusHttp = 404]_vars

\* ------------------------------------------------------------------------
\* Properties of the bulk image retry (SpecRetry)
\* ------------------------------------------------------------------------
\* the chain has run more than one invocation and its last one finished its list
ChainFinished ==
    /\ retry.pc = "done"
    /\ chain.invocations > 1
    /\ retry.remainingSceneIds = <<>>

\* C7: when a retry batch was split by its time budget into a chain of
\* invocations and the chain has finished its work, every scene of the
\* original task list was attempted exactly once and no other scene was
\* attempted, whether the original request had missing_only true or false.
C7_EveryItemAttemptedExactlyOnce ==
    ChainFinished =>
        \A s \in DOMAIN chain.attempts :
            chain.attempts[s] = IF s \in chain.original THEN 1 ELSE 0

\* C8: the maximum depth is always within 0..30 and is 10 when not configured;
\* the invocations of a chain started at depth 0 have depths 0, 1, 2, ... and
\* never more than maxDepth, so there are at most maxDepth + 1 of them; a
\* continuation is requested only by an invocation below maxDepth and carries
\* that invocation's depth plus one.
C8_ChainDepthBounded ==
    /\ [](/\ \A e \in RetryMaxDepthEnvs : MaxDepthOf(e) \in 0..30
          /\ MaxDepthOf(0) = 10
          /\ chain.invocations <= MaxDepthOf(retry.depthEnv) + 1
          /\ retry.pc # "idle" => /\ retry.depth = chain.invocations - 1
                                  /\ retry.depth <= MaxDepthOf(retry.depthEnv))
    /\ [][retry'.pc = "requeue" /\ retry.pc # "requeue" =>
            /\ retry.depth < MaxDepthOf(retry.depthEnv)
            /\ retry'.next.depth = retry.depth + 1]_vars
    /\ [][retry.pc = "requeue" /\ retry'.pc = "select_scenes" => retry'.depth = retry.next.depth]_vars

\* an invocation at the maximum depth (at least 1) ended with work remaining
C8_Witness ==
    /\ retry.pc = "done"
    /\ retry.remainingSceneIds # <<>>
    /\ retry.depth >= 1
    /\ retry.depth = MaxDepthOf(retry.depthEnv)
    /\ chain.invocations = retry.depth + 1

\* C9: a client request with missing_only true and no scene id list, on a job
\* with N scene rows of which M have no image URL, is answered 202 with
\* attempted = M, skipped = N - M, succeeded = 0 and failed = 0.
C9_ImmediateResponseCounts ==
    [][ /\ (/\ retry.pc = "select_scenes"
            /\ retry'.pc # "select_scenes"
            /\ retry.depth = 0
            /\ retry.payload.missing_only
            /\ ~retry.payload.has_scene_ids) =>
               LET N == Cardinality(ExistingSceneIds)
                   M == Cardinality({s \in ExistingSceneIds : scenes[s].image_url \in {NULL, ""}})
               IN retry'.resp = [attempted |-> M, succeeded |-> 0, failed |-> 0,
                                 skipped |-> N - M,
                                 http |-> IF retry.packager.isNull THEN 202 ELSE 0]
        /\ (retry.pc # "select_scenes" /\ retry'.pc # "select_scenes"
              /\ retry'.resp # retry.resp) =>
               /\ retry.resp.http = 0
               /\ retry'.resp = [retry.resp EXCEPT !.http = 202] ]_vars

\* such a request was answered, with scenes both attempted and skipped
C9_Witness ==
    /\ retry.pc # "idle"
    /\ retry.depth = 0
    /\ retry.payload.missing_only
    /\ ~retry.payload.has_scene_ids
    /\ retry.resp.http = 202
    /\ retry.resp.attempted >= 1
    /\ retry.resp.skipped >= 1

\* C37: when an invocation ends with work remaining below the maximum depth
\* and the key picked for the continuation call is absent or is not a
\* well-formed token (fewer than three segments), a diagnostic is logged, no
\* continuation request is sent and the invocation ends without throwing
C37_BadCredentialStopsTheChain ==
    [][(/\ retry.pc = "finish"
        /\ retry'.pc # "finish"
        /\ ShouldRequeue(retry.remainingSceneIds, retry.depth, MaxDepthOf(retry.depthEnv))
        /\ ~retry'.auth.jwtLike)
       => /\ retry'.pc = "done"
          /\ retry'.diag # "none" ]_vars

\* C36: in one invocation of the bulk retry an item that fails does not stop
\* the loop: after every item, failed or not, the loop goes on with the next
\* index, so items are taken in list order; the loop is left only past the last
\* item or when the budget test before an item finds the time exceeded, never
\* between the start and the end of an item; once the loop is left, attempted =
\* succeeded + failed and attempted + skipped + (number of remaining items) is
\* the length of the task list, and a continuation that is requested carries
\* exactly the remaining items
C36_BatchCountsAndOrder ==
    [][ /\ (retry.pc \in {"select_scenes", "persist"} /\ retry'.pc = "generate") =>
             /\ retry'.idx = IF retry.pc = "persist" THEN retry.idx + 1 ELSE 1
             /\ retry'.attempted = retry.attempted + 1
             /\ chain'.attempts = [IF retry.pc = "persist" THEN chain.attempts
                                   ELSE [s \in DOMAIN chain'.attempts |->
                                           IF chain.invocations = 1 THEN 0 ELSE chain.attempts[s]]
                                   EXCEPT ![retry'.tasks[retry'.idx].scene_id] = @ + 1]
        /\ retry.pc \in {"generate", "insert_asset"} =>
             /\ retry'.pc \in {"generate", "insert_asset", "persist"}
             /\ retry'.idx = retry.idx
        /\ retry.pc = "persist" => retry'.pc \in {"persist", "generate", "finish"}
        /\ (retry.pc = "select_scenes" /\ retry'.pc = "finish") => Len(retry'.tasks) = 0
        /\ (retry.pc = "persist" /\ retry'.pc = "finish") =>
             /\ retry'.idx = retry.idx + 1
             /\ \/ retry'.idx > Len(retry.tasks) /\ retry'.remainingSceneIds = <<>>
                \/ /\ now - retry.startedAt > MaxRuntimeMsOf(retry.runtimeEnv)
                   /\ Len(retry'.remainingSceneIds) = Len(retry.tasks) - retry'.idx + 1
        /\ retry'.pc \in {"finish", "requeue", "done"} =>
             /\ retry'.attempted = retry'.succeeded + retry'.failed
             /\ retry'.attempted + retry'.skipped + Len(retry'.remainingSceneIds) = Len(retry'.tasks)
        /\ retry'.pc = "requeue" =>
             /\ retry'.next.has_scene_ids
             /\ retry'.next.scene_ids = SeqRange(retry'.remainingSceneIds)
             /\ Cardinality(retry'.next.scene_ids) = Len(retry'.remainingSceneIds) ]_vars

\* an invocation whose first item failed went on to its second item, which
\* succeeded, and then found its budget exceeded with one item left
C36_Witness ==
    /\ retry.pc = "finish"
    /\ Len(retry.tasks) = 3
    /\ retry.failed = 1
    /\ retry.succeeded = 1
    /\ Len(retry.remainingSceneIds) = 1

\* ------------------------------------------------------------------------
\* Properties of the scene-image claim (SpecClaim)
\* ------------------------------------------------------------------------
\* a request whose claim call has returned
ClaimDecided(r) == req[r].pc \in {"generate", "update", "fail", "asset", "done"} /\ req[r].requestId # NoReq

\* a request that claimed the scene and has not yet recorded its completion
InGeneration(r) == req[r].claimed /\ req[r].pc \in {"generate", "update", "fail"}

StaleNow(t) == t < now - StaleMsOf(EnvLockStaleMs)

\* C2: of two claim calls that overlap on a scene without a GENERATING claim,
\* exactly one returns true (the other returns false and reports IN_PROGRESS).
C2_ExactlyOneOverlappingClaimWins ==
    \A r1 \in Reqs : \A r2 \in Reqs :
        ( /\ r1 # r2
          /\ r1 \in req[r2].overlap
          /\ ClaimDecided(r1) /\ ClaimDecided(r2)
          /\ req[r1].checkStatus # "GENERATING"
          /\ req[r2].checkStatus # "GENERATING" )
        => ( /\ req[r1].claimed # req[r2].claimed
             /\ \A r \in {r1, r2} : ~req[r].claimed => (req[r].status = "IN_PROGRESS" /\ req[r].genCalls = 0) )

\* C3: per scene, at most one request is in its generation phase with a claim
\* that is not stale.
C3_AtMostOneFreshHolder ==
    \A s \in ClaimSceneIds :
        Cardinality({r \in Reqs : /\ InGeneration(r)
                                  /\ req[r].sceneId = s
                                  /\ ~StaleNow(req[r].claimedAt)}) <= 1

\* C4: the claim call returns true, and writes GENERATING, the caller's request
\* id and the time it read from the clock when it decided to claim, exactly when
\* the row it reads has status null, or a status other than GENERATING, or
\* GENERATING with a start time older than staleBefore; otherwise it returns
\* false and the row is unchanged.
C4_ClaimIffClaimable ==
    [][\A r \in Reqs :
         LET s == req[r].sceneId
             row == scenes[s]
             claimable == \/ row.image_gen_status = NULL
                          \/ row.image_gen_status # "GENERATING"
                          \/ ( /\ row.image_gen_status = "GENERATING"
                               /\ row.image_gen_started_at # NoTime
                               /\ row.image_gen_started_at < req[r].staleBefore )
         IN /\ (req[r].pc = "claim_check" /\ req'[r].pc # "claim_check") =>
                 /\ claimable => req'[r].pc = "claim_write" /\ req'[r].claimedAt = now
                 /\ ~claimable => ( /\ req'[r].pc = "done"
                                    /\ ~req'[r].claimed
                                    /\ req'[r].status = "IN_PROGRESS"
                                    /\ scenes' = scenes )
            /\ (req[r].pc = "claim_write" /\ req'[r].pc # "claim_write") =>
                 /\ req'[r].claimed
                 /\ scenes' = [scenes EXCEPT ![s] =
                                 [row EXCEPT !.image_gen_status = "GENERATING",
                                             !.image_gen_request_id = req[r].requestId,
                                             !.image_gen_started_at = req[r].claimedAt,
                                             !.image_gen_error = NULL]]
    ]_vars

\* a claim over a stale GENERATING claim has been taken and a claim on a fresh one refused
C4_Witness ==
    \E r1 \in Reqs : \E r2 \in Reqs :
        /\ req[r1].claimed /\ req[r1].checkStatus = "GENERATING"
        /\ scenes[req[r1].sceneId].image_gen_request_id = req[r1].requestId
        /\ scenes[req[r1].sceneId].image_gen_started_at = req[r1].claimedAt
        /\ req[r2].status = "IN_PROGRESS"

\* C5: the completion (success or failure) of a request whose claim was
\* pre-empted, i.e. the row no longer stores its request id, leaves the scene
\* row unchanged.
C5_PreemptedCompletionIsNoOp ==
    [][\A r \in Reqs :
         ( /\ req[r].pc \in {"update", "fail"}
           /\ req'[r].pc # req[r].pc
           /\ scenes[req[r].sceneId].image_gen_request_id # req[r].requestId )
         => scenes' = scenes
    ]_vars

\* one request completed successfully and one failed after each was pre-empted
C5_Witness ==
    \E r \in Reqs :
        /\ req[r].pc = "done" /\ req[r].matched = 0
        /\ req[r].status \in {"SUCCEEDED", "FAILED"}
        /\ scenes[req[r].sceneId].image_gen_request_id # req[r].requestId
        /\ scenes[req[r].sceneId].image_gen_status = "GENERATING"

\* C6: an unforced request on a scene that has an image returns ALREADY_EXISTS
\* with the stored URL, takes no claim, issues no generation call and changes no
\* row; every repetition gives the same answer.
C6_AlreadyExistsIsIdempotent ==
    /\ [][\A r \in Reqs :
            ( /\ req[r].pc = "select_scene" /\ req'[r].pc # "select_scene"
              /\ ~req[r].force
              /\ scenes[req[r].sceneId].image_url # NULL )
            => ( /\ req'[r].pc = "done"
                 /\ req'[r].status = "ALREADY_EXISTS"
                 /\ req'[r].http = 200
                 /\ req'[r].image_url = scenes[req[r].sceneId].image_url
                 /\ scenes' = scenes /\ assets' = assets )
       ]_vars
    /\ [](\A r \in Reqs :
            req[r].status = "ALREADY_EXISTS" =>
                ( /\ req[r].pc = "done" /\ req[r].genCalls = 0
                  /\ ~req[r].claimed /\ req[r].requestId = NoReq ))

\* the unforced call was repeated on a scene with an image
C6_Witness ==
    \A r \in Reqs : req[r].status = "ALREADY_EXISTS" /\ ~req[r].force

\* C17: a request that goes on to the claim (unforced on a scene without image,
\* or forced) and finds a GENERATING claim that is not stale is answered
\* IN_PROGRESS with HTTP 202, makes no generation call and leaves every scene
\* row, with the claim's request id and start time, unchanged; this holds for
\* forced requests as well.
C17_ClaimConflictIsInProgress ==
    /\ [][\A r \in Reqs :
            LET row == scenes[req[r].sceneId] IN
            ( /\ req[r].pc = "claim_check" /\ req'[r].pc # "claim_check"
              /\ row.image_gen_status = "GENERATING"
              /\ row.image_gen_started_at >= req[r].staleBefore )
            => ( /\ req'[r].pc = "done"
                 /\ req'[r].status = "IN_PROGRESS" /\ req'[r].http = 202
                 /\ req'[r].genCalls = 0 /\ ~req'[r].claimed
                 /\ scenes' = scenes /\ assets' = assets )
       ]_vars
    /\ [][\A r \in Reqs :
            ( /\ req[r].pc = "select_scene" /\ req'[r].pc # "select_scene"
              /\ (req[r].force \/ scenes[req[r].sceneId].image_url = NULL) )
            => req'[r].pc = "claim_check"
       ]_vars

\* a forced request on a scene that has an image met the fresh claim of another
\* request and was answered IN_PROGRESS
C17_Witness ==
    \E r \in Reqs :
        /\ req[r].force /\ req[r].status = "IN_PROGRESS" /\ req[r].http = 202
        /\ req[r].checkStatus = "GENERATING"
        /\ scenes[req[r].sceneId].image_url # NULL
        /\ scenes[req[r].sceneId].image_gen_request_id \in Reqs \ {r}

\* the claim columns and the image columns of a row agree
RowConsistent(row) ==
    /\ row.image_gen_status = "GENERATING" =>
         row.image_gen_request_id # NoReq /\ row.image_gen_started_at # NoTime
    /\ row.image_gen_status = "SUCCEEDED" =>
         row.image_url # NULL /\ row.image_path # NULL

\* C39: in every state every scene row with claim status GENERATING has a
\* request id and a start time, and every row with claim status SUCCEEDED has
\* an image URL and an image path; no step sets the claim status of a row back
\* to null
C39_ClaimColumnsConsistent ==
    /\ [](\A s \in SceneIds : scenes[s].id # NoRow => RowConsistent(scenes[s]))
    /\ [][\A s \in SceneIds :
            (scenes[s].id # NoRow /\ scenes'[s].id = scenes[s].id
               /\ scenes[s].image_gen_status # NULL) =>
            scenes'[s].image_gen_status # NULL]_vars

\* the first request claimed the unclaimed scene and failed, the second one
\* took the FAILED claim over and completed it
C39_Witness ==
    /\ req[1].pc = "done"
    /\ req[1].status = "FAILED"
    /\ req[1].matched = 1
    /\ scenes[1].image_gen_status = "SUCCEEDED"
    /\ scenes[1].image_gen_request_id = req[2].requestId
    /\ scenes[1].image_url # NULL

\* the time at which request r was issued (staleBefore is that time minus staleMs)
IssuedAt(r) == req[r].staleBefore + StaleMsOf(EnvLockStaleMs)

\* C30: no scene stays blocked by an attempt that was abandoned or that failed: a
\* request that reaches the claim and was issued more than the staleness
\* threshold after the start of the GENERATING claim it finds wins the claim, and
\* so does, at once, a request that finds the claim FAILED.
C30_AbandonedOrFailedClaimIsTakenOver ==
    [][\A r \in Reqs :
         LET row == scenes[req[r].sceneId] IN
         /\ (req[r].pc = "claim_check" /\ req'[r].pc # "claim_check") =>
                /\ ( /\ row.image_gen_status = "GENERATING"
                     /\ row.image_gen_started_at # NoTime
                     /\ IssuedAt(r) - row.image_gen_started_at > StaleMsOf(EnvLockStaleMs) )
                       => req'[r].pc = "claim_write"
                /\ row.image_gen_status = "FAILED" => req'[r].pc = "claim_write"
         /\ (req[r].pc = "claim_write" /\ req'[r].pc # "claim_write") =>
                /\ req'[r].claimed /\ req'[r].pc = "generate"
                /\ scenes'[req[r].sceneId].image_gen_status = "GENERATING"
                /\ scenes'[req[r].sceneId].image_gen_request_id = req[r].requestId
    ]_vars

\* the first request took over the claim of a holder that had stopped, its
\* generation failed, and the second request took the claim at that same time
C30_Witness ==
    /\ req[1].claimed /\ req[1].checkStatus = "GENERATING" /\ req[1].status = "FAILED"
    /\ req[1].claimedAt > StaleMsOf(EnvLockStaleMs)
    /\ req[2].claimed /\ req[2].checkStatus = "FAILED"
    /\ req[2].claimedAt = req[1].claimedAt
    /\ scenes[req[2].sceneId].image_gen_request_id = req[2].requestId

\* ------------------------------------------------------------------------
\* Properties of the job pipeline (SpecJob)
\* ------------------------------------------------------------------------
\* the step is the reset of an explicit restart
IsRestartReset == \E k \in Starts : starts[k] = "reset" /\ starts'[k] # "reset"

\* C1: the status of a job changes only QUEUED -> RUNNING, RUNNING -> SUCCEEDED,
\* RUNNING -> FAILED, or from SUCCEEDED / FAILED to QUEUED by an explicit restart.
C1_StatusTransitions ==
    [][ (job.exists /\ job'.exists /\ job'.status # job.status) =>
          \/ job.status = "QUEUED" /\ job'.status = "RUNNING"
          \/ job.status = "RUNNING" /\ job'.status \in {"SUCCEEDED", "FAILED"}
          \/ job.status \in {"SUCCEEDED", "FAILED"} /\ job'.status = "QUEUED" /\ IsRestartReset
    ]_vars

EmptyScenesError == "Packager output is invalid: scenes is empty (after repair attempt)"

\* C10: when stage 2 and the single repair request both yield no scenes, the job
\* ends FAILED with the error that says the scenes are empty, no further stage-2
\* request was made, and the job has no scene and no asset rows.
C10_EmptyTwiceFailsWithEmptyScenesError ==
    \A k \in Starts :
        ( /\ runs[k].pc = "done"
          /\ runs[k].first = "empty" /\ runs[k].repair = "empty"
          /\ \A j \in Starts \ {k} : starts[j] = "idle" )
        => ( /\ job.status = "FAILED"
             /\ job.error = EmptyScenesError
             /\ runs[k].stage2Calls <= 3
             /\ \A s \in DOMAIN scenes : scenes[s].id = NoRow
             /\ assets = {} )

\* the steps of a run from the start of stage 1 up to its insert of the scene rows
BeforeInsert ==
    {"stage1", "persist_autoconfig", "stage2", "stage2_fallback", "repair",
     "persist_packager", "insert_scenes"}

\* C12: the reset of a restart sets the status to QUEUED and autoconfig, packager,
\* final_package and error to null; and from the moment the restarted run begins
\* stage 1 until it inserts its own scene rows there is no scene row, no asset
\* row of another run and no result written before the restart (autoconfig until
\* the run persists its own, final_package throughout).
C12_RestartStartsClean ==
    /\ [][(IsRestartReset /\ job.exists) =>
            /\ job'.status = "QUEUED"
            /\ job'.autoconfig.isNull /\ job'.packager.isNull /\ job'.final_package.isNull
            /\ job'.error = NULL]_vars
    /\ [](\A k \in Starts \ {1} :
            ( /\ runs[k].pc \in BeforeInsert
              /\ \A j \in Starts : j > k => starts[j] = "idle" )
            => ( /\ \A s \in DOMAIN scenes : scenes[s].id = NoRow
                 /\ \A a \in assets : a.by = <<"pipeline", k>>
                 /\ job.final_package.isNull
                 /\ runs[k].pc \in {"stage1", "persist_autoconfig"} => job.autoconfig.isNull ))

\* C20: final_package is non-null only while the status of the job is SUCCEEDED.
C20_FinalPackageOnlyWhenSucceeded ==
    ~job.final_package.isNull => job.status = "SUCCEEDED"

====
